---- MODULE Spec2Model ----
(***************************************************************************)
(* IndraNav WebSocket telemetry server (backend/ws/websocketServer.js):    *)
(* the connection registry, the per-session simulation registry, the tick  *)
(* (motion model, hazard classifier, broadcast) and the staleness sweep.   *)
(*                                                                         *)
(* Units.  Time is in milliseconds.  The simulation state keeps speed and  *)
(* obstacle distance in thousandths (km/h * 1000, m * 1000); a telemetry   *)
(* sample carries them rounded to two decimals, in hundredths.  A draw of  *)
(* Math.random() is a number of thousandths, 0..999.                       *)
(***************************************************************************)
EXTENDS Integers, Sequences, FiniteSets, TLC

VARIABLES
    now,               \* Date.now()
    sweepDue,          \* when the 30 s cleanup interval fires next
    activeConnections, \* the Map's keys, in insertion order
    conn,              \* the connection objects (they outlive their Map entry), each
                       \* with its socket: readyState, and whether send() throws
    closePending,      \* sockets that are closed and whose 'close' event is queued
    activeSessions,    \* sessionId -> { telemetryInterval, simulationState, ... }
    timers,            \* live setInterval timers, each with the state its closure holds
    pendingTicks,      \* ticks suspended at `await alert.save()`
    handlers,          \* message handlers suspended at a storage call
    sent,              \* the messages handed to socket.send by the last step, in order
    lastEvent,         \* what the last step was
    alertLog,          \* history: session id and timestamp of every alert raised
    probe              \* the sample and result of a stand-alone checkForHazards call

vars == <<now, sweepDue, activeConnections, conn, closePending, activeSessions,
          timers, pendingTicks, handlers, sent, lastEvent, alertLog, probe>>

-----------------------------------------------------------------------------
(* Bounds of the model *)

\* The clock starts here; any value above the cooldown and the stale threshold will do.
ServerStart == 100000
\* How long after ServerStart the clock runs: with ticks every 5 s (two ticks of a
\* simulation), with the sweeps alone (three sweeps), and with ticks every 2.5 s.
Horizon == 10000
SweepHorizon == 90000
FineHorizon == 5000
CooldownHorizon == 10002
\* Three sweeps, with simulations that tick once in that time.
FrameHorizon == 90000
\* Consecutive updateSimulationState calls on one state, in the motion model alone.
MotionSteps == 2

Conns == {"c1", "c2"}
FineConns == {"c1"}
\* The session ids a client names in subscribe_telemetry, and in start_session.
SessionIds == {"sessA1", "sessB2"}
StartIds == {"sessA1"}
\* simulationSpeed (the tick interval) a client asks for: the alert cooldown, a value
\* below it, and one beyond the sweeps' horizon.
Intervals == {5000}
FineIntervals == {2500}
LongIntervals == {120000}
FrameIntervals == {90000}
\* Tick intervals around the alert cooldown.
CooldownIntervals == {4999, 5000, 5001}

(* Program constants *)
alertCooldown == 5000
staleThreshold == 60000
sweepPeriod == 30000

NoSession == "null"
NoAlert == [type |-> "none", severity |-> "none", error |-> FALSE]

-----------------------------------------------------------------------------
(* Numbers that may be NaN (position and route progress) *)

NaN == [nan |-> TRUE, v |-> 0]
Num(n) == [nan |-> FALSE, v |-> n]
NumAdd(a, b) == IF a.nan \/ b.nan THEN NaN ELSE Num(a.v + b.v)

Without(f, k) == [x \in DOMAIN f \ {k} |-> f[x]]
With(f, k, val) == [x \in DOMAIN f \cup {k} |-> IF x = k THEN val ELSE f[x]]

Max(a, b) == IF a >= b THEN a ELSE b
Min(a, b) == IF a <= b THEN a ELSE b

RECURSIVE SeqSelect(_, _)
\* The elements of the sequence s that are in the set keep, in order.
SeqSelect(s, keep) ==
    IF s = << >> THEN << >>
    ELSE (IF Head(s) \in keep THEN <<Head(s)>> ELSE << >>) \o SeqSelect(Tail(s), keep)

Range(s) == {s[i] : i \in DOMAIN s}

-----------------------------------------------------------------------------
(* Motion model *)

\* startTelemetrySimulation's `simulationState` literal; r holds the five draws.
\* (startTime only feeds the bearing; the model takes the base bearing and leaves
\* the field out.)
NewSimulationState(r) ==
    [ currentSpeed            |-> 60000 + 40 * r.speed,
      currentLat              |-> Num(407128000 + 100 * r.lat - 50000),
      currentLng              |-> Num(-740060000 + 100 * r.lng - 50000),
      currentObstacleDistance |-> 50000 + 200 * r.obstacle,
      lastAlertTime           |-> 0,
      alertCooldown           |-> alertCooldown,
      speedTrend              |-> IF r.trend > 500 THEN 1 ELSE -1,
      routeProgress           |-> Num(0) ]

\* state.intervalMs: the state object has no such property, so the read is undefined.
IntervalOf(state) ==
    IF "intervalMs" \in DOMAIN state THEN Num(state.intervalMs) ELSE NaN

\* distanceM = speedMs * (state.intervalMs / 1000), in millimetres.
DistanceM(speed, interval) ==
    IF interval.nan THEN NaN ELSE Num((speed * interval.v) \div 3600)

\* latChange and lngChange at the base bearing of 45 degrees, in 1e-7 degrees.
LatChange(dist) == IF dist.nan THEN NaN ELSE Num((dist.v * 7071) \div 111320)
LngChange(dist) == IF dist.nan THEN NaN ELSE Num((dist.v * 7071) \div 84380)

\* No clamping at all.
Clamp_Open(lo, hi, x) == x

\* Math.max(lo, Math.min(hi, x))
Clamp(lo, hi, x) == Max(lo, Min(hi, x))

\* The obstacle-distance part of updateSimulationState.
NextObstacleDistance(d, r) ==
    IF r.scen < 150
    THEN IF d > 100000 /\ r.pick < 300 THEN 10000 + 30 * r.val
         ELSE IF d < 50000 /\ r.pick < 400 THEN 80000 + 150 * r.val
         ELSE Clamp(5000, 300000, d + (20 * r.val - 10000))
    ELSE Clamp(5000, 300000, d + (5 * r.val - 2500))

\* updateSimulationState(state); r holds the draws of Math.random().
updateSimulationState(state, r) ==
    LET trend == IF r.flip < 100 THEN -state.speedTrend ELSE state.speedTrend
        speed == Clamp(20000, 140000, state.currentSpeed + trend * (500 + 2 * r.speed))
        dist  == DistanceM(speed, IntervalOf(state))
    IN  [ state EXCEPT
            !.speedTrend = trend,
            !.currentSpeed = speed,
            !.currentLat = NumAdd(@, LatChange(dist)),
            !.currentLng = NumAdd(@, LngChange(dist)),
            !.routeProgress = NumAdd(@, dist),
            !.currentObstacleDistance = NextObstacleDistance(@, r) ]

\* Math.round(x * 100) / 100, from thousandths to hundredths.
Round2(x) == (x + 5) \div 10
\* Math.round(x * 1000000) / 1000000, from 1e-7 to 1e-6 degrees.
Round6(x) == IF x.nan THEN NaN ELSE Num((x.v + 5) \div 10)

\* The telemetryData literal of generateAndBroadcastTelemetry.
TelemetryData(sessionId, state, t) ==
    [ sessionId        |-> sessionId,
      timestamp        |-> t,
      speed            |-> Round2(state.currentSpeed),
      gps              |-> [lat |-> Round6(state.currentLat), lng |-> Round6(state.currentLng)],
      obstacleDistance |-> Round2(state.currentObstacleDistance) ]

-----------------------------------------------------------------------------
(* Hazard classifier *)

\* obstacleDistance <= stoppingDistance * 0.7 with stoppingDistance =
\* (speed/3.6)^2 / (2*7): d <= v^2 / 259.2, which in hundredths is 25920 d <= v^2.
WithinStoppingDistance(speed, obstacleDistance) ==
    25920 * obstacleDistance <= speed * speed

\* The chain with the speed rule tried before the stopping-distance rule.
ClassifyHazard_SpeedFirst(speed, obstacleDistance) ==
    IF obstacleDistance <= 500
        THEN [type |-> "emergency_brake", severity |-> "critical"]
    ELSE IF speed > 12000
        THEN [type |-> "speed_warning", severity |-> "medium"]
    ELSE IF WithinStoppingDistance(speed, obstacleDistance)
        THEN [type |-> "collision_warning", severity |-> "high"]
    ELSE IF obstacleDistance < 3000 /\ speed > 8000
        THEN [type |-> "collision_warning", severity |-> "high"]
    ELSE IF obstacleDistance < 2000
        THEN [type |-> "collision_warning", severity |-> "medium"]
    ELSE [type |-> "none", severity |-> "medium"]

\* The if/else-if chain of checkForHazards, on a sample in hundredths.
ClassifyHazard(speed, obstacleDistance) ==
    IF obstacleDistance <= 500
        THEN [type |-> "emergency_brake", severity |-> "critical"]
    ELSE IF WithinStoppingDistance(speed, obstacleDistance)
        THEN [type |-> "collision_warning", severity |-> "high"]
    ELSE IF speed > 12000
        THEN [type |-> "speed_warning", severity |-> "medium"]
    ELSE IF obstacleDistance < 3000 /\ speed > 8000
        THEN [type |-> "collision_warning", severity |-> "high"]
    ELSE IF obstacleDistance < 2000
        THEN [type |-> "collision_warning", severity |-> "medium"]
    ELSE [type |-> "none", severity |-> "medium"]

\* A cooldown that still holds when the window has just passed.
InCooldown_AtWindow(state, t) == t - state.lastAlertTime <= state.alertCooldown

\* The cooldown test at the head of checkForHazards.
InCooldown(state, t) == t - state.lastAlertTime < state.alertCooldown

\* An evaluation that stamps lastAlertTime whatever it returns.
checkForHazards_AlwaysStamp(telemetryData, state, t) ==
    IF InCooldown(state, t)
    THEN [alert |-> NoAlert, state |-> [state EXCEPT !.lastAlertTime = t]]
    ELSE LET c == ClassifyHazard(telemetryData.speed, telemetryData.obstacleDistance)
         IN  [ alert |-> IF c.type # "none"
                         THEN [type |-> c.type, severity |-> c.severity, error |-> FALSE]
                         ELSE NoAlert,
               state |-> [state EXCEPT !.lastAlertTime = t] ]

\* checkForHazards up to its `await alert.save()`: the alert it will return (NoAlert
\* for null) and the simulation state it leaves.
checkForHazards(telemetryData, state, t) ==
    IF InCooldown(state, t)
    THEN [alert |-> NoAlert, state |-> state]
    ELSE LET c == ClassifyHazard(telemetryData.speed, telemetryData.obstacleDistance)
         IN  IF c.type # "none"
             THEN [ alert |-> [type |-> c.type, severity |-> c.severity, error |-> FALSE],
                    state |-> [state EXCEPT !.lastAlertTime = t] ]
             ELSE [alert |-> NoAlert, state |-> state]

-----------------------------------------------------------------------------
(* Registries *)

Registered == Range(activeConnections)
IsRunning(sessionId) == sessionId \in DOMAIN activeSessions

\* The registries a synchronous helper works on: the connection Map's keys (ac),
\* activeSessions (as) and the live timers (tm).
World == [ac |-> activeConnections, as |-> activeSessions, tm |-> timers]

\* setInterval returns a handle that no live timer has: the session id and the
\* least number free for it.
NewTimerId(tm, sessionId) ==
    <<sessionId, CHOOSE i \in 1..(Cardinality(DOMAIN tm) + 1) :
                    /\ <<sessionId, i>> \notin DOMAIN tm
                    /\ \A j \in 1..(i - 1) : <<sessionId, j>> \in DOMAIN tm>>

\* A start that does not look whether the session is running.
startTelemetrySimulation_NoCheck(w, sessionId, intervalMs, r, t) ==
    LET id == NewTimerId(w.tm, sessionId)
    IN  [ w EXCEPT
            !.tm = With(@, id, [ sessionId  |-> sessionId,
                                 state      |-> NewSimulationState(r),
                                 nextFire   |-> t + intervalMs,
                                 intervalMs |-> intervalMs ]),
            !.as = With(@, sessionId, [ telemetryInterval |-> id,
                                        simulationState   |-> id,
                                        intervalMs        |-> intervalMs ]) ]

\* startTelemetrySimulation(sessionId, intervalMs) at time t; r holds its draws.
startTelemetrySimulation(w, sessionId, intervalMs, r, t) ==
    IF sessionId \in DOMAIN w.as
    THEN w
    ELSE LET id == NewTimerId(w.tm, sessionId)
         IN  [ w EXCEPT
                 !.tm = With(@, id, [ sessionId  |-> sessionId,
                                      state      |-> NewSimulationState(r),
                                      nextFire   |-> t + intervalMs,
                                      intervalMs |-> intervalMs ]),
                 !.as = With(@, sessionId, [ telemetryInterval |-> id,
                                             simulationState   |-> id,
                                             intervalMs        |-> intervalMs ]) ]

\* A stop that clears every interval and empties activeSessions.
stopTelemetrySimulation_All(w, sessionId) ==
    IF sessionId \in DOMAIN w.as
    THEN [ w EXCEPT !.tm = << >>, !.as = << >> ]
    ELSE w

\* stopTelemetrySimulation(sessionId)
stopTelemetrySimulation(w, sessionId) ==
    IF sessionId \in DOMAIN w.as
    THEN [ w EXCEPT !.tm = Without(@, w.as[sessionId].telemetryInterval),
                    !.as = Without(@, sessionId) ]
    ELSE w

\* The connections handleClientDisconnect counts for a session.
SessionConnections(ac, sessionId) == {x \in Range(ac) : conn[x].sessionId = sessionId}

\* A disconnect that stops the session's simulation whoever else is subscribed.
handleClientDisconnect_AlwaysStop(w, c) ==
    IF c \in Range(w.ac)
    THEN [stopTelemetrySimulation(w, conn[c].sessionId) EXCEPT
             !.ac = SeqSelect(@, Range(@) \ {c})]
    ELSE w

\* A disconnect that, for a connection the Map no longer has, clears every interval.
handleClientDisconnect_Repeats(w, c) ==
    IF c \in Range(w.ac)
    THEN LET sid == conn[c].sessionId
             w1 == IF sid # NoSession /\ Cardinality(SessionConnections(w.ac, sid)) <= 1
                   THEN stopTelemetrySimulation(w, sid)
                   ELSE w
         IN  [w1 EXCEPT !.ac = SeqSelect(@, Range(@) \ {c})]
    ELSE [w EXCEPT !.tm = << >>, !.as = << >>]

\* handleClientDisconnect(connectionId)
handleClientDisconnect(w, c) ==
    IF c \in Range(w.ac)
    THEN LET sid == conn[c].sessionId
             w1 == IF sid # NoSession /\ Cardinality(SessionConnections(w.ac, sid)) <= 1
                   THEN stopTelemetrySimulation(w, sid)
                   ELSE w
         IN  [w1 EXCEPT !.ac = SeqSelect(@, Range(@) \ {c})]
    ELSE w

-----------------------------------------------------------------------------
(* Messages to clients *)

NoTelemetry == [sessionId |-> NoSession]

\* A message to a client: its type, the connection it goes to, the session it names,
\* the alert and the sample it carries, the texts of its data (the message of an
\* error, the supportedTypes it lists), and whether socket.send threw on it.
Msg(type, to, sessionId) ==
    [type |-> type, to |-> to, sessionId |-> sessionId, alert |-> NoAlert,
     telemetry |-> NoTelemetry, detail |-> << >>, failed |-> FALSE]

\* supportedTypes of the reply to a message of unknown type
SupportedTypes ==
    <<"start_session", "stop_session", "subscribe_telemetry", "unsubscribe_telemetry",
      "request_session_status", "ping">>

IsOpen(c) == conn[c].readyState = "OPEN"

\* sendMessage(socket, message): nothing is sent on a socket that is not open; an
\* exception of socket.send is caught and logged.
sendMessage(c, m) ==
    IF IsOpen(c) THEN <<[m EXCEPT !.failed = conn[c].sendThrows]>> ELSE << >>

RECURSIVE SendEach_StopsAtFailure(_, _, _)
\* A forEach that the first failed send ends.
SendEach_StopsAtFailure(order, keep, m) ==
    IF order = << >> THEN << >>
    ELSE LET first == IF Head(order) \in keep
                      THEN sendMessage(Head(order), [m EXCEPT !.to = Head(order)])
                      ELSE << >>
         IN  IF first # << >> /\ first[1].failed
             THEN first
             ELSE first \o SendEach_StopsAtFailure(Tail(order), keep, m)

RECURSIVE SendEach(_, _, _)
\* activeConnections.forEach over the keys in `order`: message m goes to each
\* connection of `keep`.
SendEach(order, keep, m) ==
    IF order = << >> THEN << >>
    ELSE (IF Head(order) \in keep THEN sendMessage(Head(order), [m EXCEPT !.to = Head(order)])
          ELSE << >>) \o SendEach(Tail(order), keep, m)

\* Receivers chosen without looking at the subscription.
TelemetryReceivers_AllOpen(sessionId) ==
    {c \in Registered : IsOpen(c)}

\* Whom broadcastTelemetryData sends the telemetry_data message to.
TelemetryReceivers(sessionId) ==
    {c \in Registered : conn[c].sessionId = sessionId /\ IsOpen(c)}

\* broadcastGlobalAlert(alert, sessionId)
broadcastGlobalAlert(alert, sessionId) ==
    SendEach(activeConnections, {c \in Registered : IsOpen(c)},
             [Msg("global_alert", NoSession, sessionId) EXCEPT !.alert = alert])

\* A broadcast that sends the global alert for an alert of any severity.
broadcastTelemetryData_AnySeverity(sessionId, telemetryData, hazardAlert) ==
    SendEach(activeConnections, TelemetryReceivers(sessionId),
             [Msg("telemetry_data", NoSession, sessionId) EXCEPT
                 !.alert = hazardAlert, !.telemetry = telemetryData])
    \o (IF hazardAlert # NoAlert
        THEN broadcastGlobalAlert(hazardAlert, sessionId)
        ELSE << >>)

\* A broadcast that sends the global alert ahead of the telemetry.
broadcastTelemetryData_AlertFirst(sessionId, telemetryData, hazardAlert) ==
    (IF hazardAlert # NoAlert /\ hazardAlert.severity = "critical"
     THEN broadcastGlobalAlert(hazardAlert, sessionId)
     ELSE << >>)
    \o SendEach(activeConnections, TelemetryReceivers(sessionId),
                [Msg("telemetry_data", NoSession, sessionId) EXCEPT
                    !.alert = hazardAlert, !.telemetry = telemetryData])

\* broadcastTelemetryData(sessionId, telemetryData, hazardAlert)
broadcastTelemetryData(sessionId, telemetryData, hazardAlert) ==
    SendEach(activeConnections, TelemetryReceivers(sessionId),
             [Msg("telemetry_data", NoSession, sessionId) EXCEPT
                 !.alert = hazardAlert, !.telemetry = telemetryData])
    \o (IF hazardAlert # NoAlert /\ hazardAlert.severity = "critical"
        THEN broadcastGlobalAlert(hazardAlert, sessionId)
        ELSE << >>)

\* What a step was: the operation, the connection and session it was about (for a
\* sweep, a session it stopped), a flag of its outcome (a close, error or sweep that
\* unregistered a connection, a start that found the session running, a tick that
\* published), for a tick, the alert it raised, and whether its telemetry sample
\* was stored (telemetryLog.save() fulfilled).
Event(op, c, sessionId, flag) ==
    [op |-> op, conn |-> c, sessionId |-> sessionId, flag |-> flag, alert |-> NoAlert,
     stored |-> TRUE]

-----------------------------------------------------------------------------
(* The draws of Math.random() the server model explores *)

Draw(flip, speed, scen, pick, val) ==
    [flip |-> flip, speed |-> speed, scen |-> scen, pick |-> pick, val |-> val]

\* One tick's draws: a scenario change with the lowest value (a cut-in at 10 m
\* from a clear road, a clear road at 80 m from a close obstacle), and the largest
\* closing jitter (-10 m).
TickDraws == { Draw(500, 0, 0, 0, 0), Draw(500, 0, 0, 999, 0) }

\* The draws of a fresh simulation: 60 km/h, rising, obstacle at 249.8 m.
StartDraws == { [speed |-> 0, lat |-> 500, lng |-> 500, obstacle |-> 999, trend |-> 999] }

NoProbe == [speed |-> 0, obstacleDistance |-> 0, lastAlertTime |-> 0, done |-> FALSE,
            alert |-> NoAlert]

-----------------------------------------------------------------------------
(* Initial state: initializeWebSocketServer has returned *)

InitServer ==
    /\ now = ServerStart
    /\ sweepDue = ServerStart + sweepPeriod
    /\ activeConnections = << >>
    /\ conn = [c \in Conns |-> [sessionId |-> NoSession, lastActivity |-> 0,
                                readyState |-> "NONE", sendThrows |-> FALSE]]
    /\ closePending = {}
    /\ activeSessions = << >>
    /\ timers = << >>
    /\ pendingTicks = {}
    /\ handlers = {}
    /\ sent = << >>
    /\ lastEvent = Event("init", NoSession, NoSession, FALSE)
    /\ alertLog = {}

Init == InitServer /\ probe = NoProbe

SetWorld(w) ==
    /\ activeConnections' = w.ac
    /\ activeSessions' = w.as
    /\ timers' = w.tm

\* connection.lastActivity = Date.now(), when the connection is still in the Map
Touch(cn, c) == IF c \in Registered THEN [cn EXCEPT ![c].lastActivity = now] ELSE cn

\* A connection object that is in the Map no more and that no suspended handler
\* holds is unreachable: its fields are dropped (the socket's readyState stays).
Collect(cn, ac, hs) ==
    [c \in Conns |->
        IF c \notin Range(ac) /\ cn[c].readyState # "NONE" /\ \A h \in hs : h.conn # c
        THEN [sessionId |-> NoSession, lastActivity |-> 0, readyState |-> cn[c].readyState,
              sendThrows |-> cn[c].sendThrows]
        ELSE cn[c]]

-----------------------------------------------------------------------------
(* Connection lifecycle *)

\* wss.on('connection')
Connect(c) ==
    /\ conn[c].readyState = "NONE"
    /\ activeConnections' = Append(activeConnections, c)
    /\ conn' = [conn EXCEPT ![c] = [sessionId |-> NoSession, lastActivity |-> now,
                                    readyState |-> "OPEN", sendThrows |-> FALSE]]
    /\ sent' = <<Msg("connection_established", c, NoSession)>>
    /\ lastEvent' = Event("connection", c, NoSession, FALSE)
    /\ UNCHANGED <<now, sweepDue, closePending, activeSessions, timers, pendingTicks,
                   handlers, alertLog, probe>>

\* The socket of a registered connection comes to a condition in which it is OPEN
\* and send() throws.
SocketBreaks(c) ==
    /\ IsOpen(c) /\ c \in Registered
    /\ ~conn[c].sendThrows
    /\ conn' = [conn EXCEPT ![c].sendThrows = TRUE]
    /\ sent' = << >>
    /\ lastEvent' = Event("socket_breaks", c, NoSession, FALSE)
    /\ UNCHANGED <<now, sweepDue, activeConnections, closePending, activeSessions, timers,
                   pendingTicks, handlers, alertLog, probe>>

\* The peer closes (or the link drops): the socket leaves OPEN, its 'close' event is queued.
ClientClose(c) ==
    /\ IsOpen(c)
    /\ conn' = [conn EXCEPT ![c].readyState = "CLOSED"]
    /\ closePending' = closePending \cup {c}
    /\ sent' = << >>
    /\ lastEvent' = Event("peer_close", c, NoSession, FALSE)
    /\ UNCHANGED <<now, sweepDue, activeConnections, activeSessions, timers, pendingTicks,
                   handlers, alertLog, probe>>

\* socket.on('close')
CloseEvent(c) ==
    /\ c \in closePending
    /\ closePending' = closePending \ {c}
    /\ LET w == handleClientDisconnect(World, c)
       IN  /\ SetWorld(w)
           /\ conn' = Collect(conn, w.ac, handlers)
    /\ sent' = << >>
    /\ lastEvent' = Event("close", c, conn[c].sessionId, c \in Registered)
    /\ UNCHANGED <<now, sweepDue, pendingTicks, handlers, alertLog, probe>>

\* socket.on('error'); ws closes the socket after an error, so 'close' follows.
ErrorEvent(c) ==
    /\ IsOpen(c)
    /\ closePending' = closePending \cup {c}
    /\ LET w == handleClientDisconnect(World, c)
       IN  /\ SetWorld(w)
           /\ conn' = Collect([conn EXCEPT ![c].readyState = "CLOSED"], w.ac, handlers)
    /\ sent' = << >>
    /\ lastEvent' = Event("error", c, conn[c].sessionId, c \in Registered)
    /\ UNCHANGED <<now, sweepDue, pendingTicks, handlers, alertLog, probe>>

-----------------------------------------------------------------------------
(* Inbound messages.  socket.on('message') parses the payload, refreshes        *)
(* lastActivity and calls handleClientMessage; a handler runs up to its first   *)
(* storage call and leaves a suspended handler behind.  The storage is an       *)
(* outside collaborator (the REST routes write the same collection): what its   *)
(* calls return is an input.                                                    *)

Handler(kind, c, sessionId, intervalMs) ==
    [kind |-> kind, conn |-> c, sessionId |-> sessionId, intervalMs |-> intervalMs]

\* start_session: handleStartSession up to `await Session.findOne`
StartSession(c, sessionId, intervalMs) ==
    /\ IsOpen(c) /\ c \in Registered
    /\ handlers' = handlers \cup {Handler("start", c, sessionId, intervalMs)}
    /\ conn' = Touch(conn, c)
    /\ sent' = << >>
    /\ lastEvent' = Event("start_session", c, sessionId, FALSE)
    /\ UNCHANGED <<now, sweepDue, activeConnections, closePending, activeSessions, timers,
                   pendingTicks, alertLog, probe>>

\* A catch block that also drops the sender's subscription.
HandlerFails_Unsubscribes(h, type) ==
    /\ sent' = sendMessage(h.conn, Msg(type, h.conn, h.sessionId))
    /\ lastEvent' = Event(type, h.conn, h.sessionId, FALSE)
    /\ conn' = Collect([conn EXCEPT ![h.conn].sessionId = NoSession],
                       activeConnections, handlers \ {h})
    /\ UNCHANGED <<activeConnections, activeSessions, timers>>

\* The catch block of a handler: the error reply.
HandlerFails(h, type) ==
    /\ sent' = sendMessage(h.conn, Msg(type, h.conn, h.sessionId))
    /\ lastEvent' = Event(type, h.conn, h.sessionId, FALSE)
    /\ conn' = Collect(conn, activeConnections, handlers \ {h})
    /\ UNCHANGED <<activeConnections, activeSessions, timers>>

\* A start that does not reply when the simulation is already running.
StartSessionSettled_SilentIfRunning(h, ok, r) ==
    /\ h \in handlers /\ h.kind = "start" /\ h.sessionId # NoSession
    /\ handlers' = handlers \ {h}
    /\ IF ok
       THEN /\ SetWorld(startTelemetrySimulation(World, h.sessionId, h.intervalMs, r, now))
            /\ conn' = Collect([conn EXCEPT ![h.conn].sessionId = h.sessionId],
                               activeConnections, handlers \ {h})
            /\ sent' = IF IsRunning(h.sessionId) THEN << >>
                       ELSE sendMessage(h.conn, Msg("session_started", h.conn, h.sessionId))
            /\ lastEvent' = Event("session_started", h.conn, h.sessionId, IsRunning(h.sessionId))
       ELSE HandlerFails(h, "session_error")
    /\ UNCHANGED <<now, sweepDue, closePending, pendingTicks, alertLog, probe>>

\* The storage calls of handleStartSession settle (findOne, and session.save() for a
\* session that is new): ok when the session was found or created.  From
\* `connection.sessionId = session.sessionId` the handler runs to its end.
StartSessionSettled(h, ok, r) ==
    /\ h \in handlers /\ h.kind = "start" /\ h.sessionId # NoSession
    /\ handlers' = handlers \ {h}
    /\ IF ok
       THEN /\ SetWorld(startTelemetrySimulation(World, h.sessionId, h.intervalMs, r, now))
            /\ conn' = Collect([conn EXCEPT ![h.conn].sessionId = h.sessionId],
                               activeConnections, handlers \ {h})
            /\ sent' = sendMessage(h.conn, Msg("session_started", h.conn, h.sessionId))
            /\ lastEvent' = Event("session_started", h.conn, h.sessionId, IsRunning(h.sessionId))
       ELSE HandlerFails(h, "session_error")
    /\ UNCHANGED <<now, sweepDue, closePending, pendingTicks, alertLog, probe>>

\* The characters of a session id the server makes up, and the id as a string.
Alphanumeric ==
    {"a", "b", "c", "d", "e", "f", "g", "h", "i", "j", "k", "l", "m", "n", "o", "p", "q",
     "r", "s", "t", "u", "v", "w", "x", "y", "z",
     "A", "B", "C", "D", "E", "F", "G", "H", "I", "J", "K", "L", "M", "N", "O", "P", "Q",
     "R", "S", "T", "U", "V", "W", "X", "Y", "Z",
     "0", "1", "2", "3", "4", "5", "6", "7", "8", "9"}

DigitChars == <<"0", "1", "2", "3", "4", "5", "6", "7", "8", "9">>

RECURSIVE Digits(_)
\* The decimal digits of n, as a template literal prints a number.
Digits(n) ==
    IF n < 10 THEN <<DigitChars[n + 1]>>
    ELSE Digits(n \div 10) \o <<DigitChars[(n % 10) + 1]>>

RECURSIVE Text(_)
Text(chars) == IF chars = << >> THEN "" ELSE Head(chars) \o Text(Tail(chars))

\* `ws_session_${Date.now()}`
GeneratedSessionId(t) ==
    <<"w", "s", "_", "s", "e", "s", "s", "i", "o", "n", "_">> \o Digits(t)

\* The validator of sessionSchema.sessionId: /^[a-zA-Z0-9]{6,}$/.test(v)
sessionIdValidator(v) == Len(v) >= 6 /\ \A i \in DOMAIN v : v[i] \in Alphanumeric

\* The storage calls of handleStartSession settle for a start_session without
\* sessionId.  Session.findOne({ sessionId: undefined }) finds nothing (the schema
\* requires a sessionId of every record), so the handler builds a Session under a
\* generated id; save() validates the document before it writes, and rejects when
\* the validator fails.  `ok`: the storage calls themselves were fulfilled (it is
\* the flag of a session_error event here).
StartSessionWithoutId(h, ok, r) ==
    /\ h \in handlers /\ h.kind = "start" /\ h.sessionId = NoSession
    /\ handlers' = handlers \ {h}
    /\ LET id == Text(GeneratedSessionId(now))
       IN  IF ok /\ sessionIdValidator(GeneratedSessionId(now))
           THEN /\ SetWorld(startTelemetrySimulation(World, id, h.intervalMs, r, now))
                /\ conn' = Collect([conn EXCEPT ![h.conn].sessionId = id],
                                   activeConnections, handlers \ {h})
                /\ sent' = sendMessage(h.conn, Msg("session_started", h.conn, id))
                /\ lastEvent' = Event("session_started", h.conn, id, IsRunning(id))
           ELSE /\ sent' = sendMessage(h.conn, Msg("session_error", h.conn, NoSession))
                /\ lastEvent' = Event("session_error", h.conn, NoSession, ok)
                /\ conn' = Collect(conn, activeConnections, handlers \ {h})
                /\ UNCHANGED <<activeConnections, activeSessions, timers>>
    /\ UNCHANGED <<now, sweepDue, closePending, pendingTicks, alertLog, probe>>

\* stop_session: handleStopSession up to `await Session.findOne`
StopSession(c) ==
    /\ IsOpen(c) /\ c \in Registered
    /\ conn[c].sessionId # NoSession
    /\ SetWorld(stopTelemetrySimulation(World, conn[c].sessionId))
    /\ handlers' = handlers \cup {Handler("stop", c, conn[c].sessionId, 0)}
    /\ conn' = Touch(conn, c)
    /\ sent' = << >>
    /\ lastEvent' = Event("stop_session", c, conn[c].sessionId, IsRunning(conn[c].sessionId))
    /\ UNCHANGED <<now, sweepDue, closePending, pendingTicks, alertLog, probe>>

\* The storage calls of handleStopSession settle (findOne, and endSession() for a
\* session not yet ended).  The session_stopped reply names, and the handler then
\* clears, the subscription the connection has at that moment.
StopSessionSettled(h, ok) ==
    /\ h \in handlers /\ h.kind = "stop"
    /\ handlers' = handlers \ {h}
    /\ IF ok
       THEN /\ sent' = sendMessage(h.conn, Msg("session_stopped", h.conn, conn[h.conn].sessionId))
            /\ conn' = Collect([conn EXCEPT ![h.conn].sessionId = NoSession],
                               activeConnections, handlers \ {h})
            /\ lastEvent' = Event("session_stopped", h.conn, conn[h.conn].sessionId, FALSE)
            /\ UNCHANGED <<activeConnections, activeSessions, timers>>
       ELSE HandlerFails(h, "session_error")
    /\ UNCHANGED <<now, sweepDue, closePending, pendingTicks, alertLog, probe>>

\* A subscribe that keeps the subscription the connection already has.
Subscribe_KeepFirst(c, sessionId) ==
    /\ IsOpen(c) /\ c \in Registered
    /\ conn' = [Touch(conn, c) EXCEPT
                   ![c].sessionId = IF @ = NoSession THEN sessionId ELSE @]
    /\ sent' = sendMessage(c, Msg("subscription_confirmed", c, sessionId))
    /\ lastEvent' = Event("subscribe_telemetry", c, sessionId, FALSE)
    /\ UNCHANGED <<now, sweepDue, activeConnections, closePending, activeSessions, timers,
                   pendingTicks, handlers, alertLog, probe>>

\* subscribe_telemetry with a sessionId: handleSubscribeTelemetry
Subscribe(c, sessionId) ==
    /\ IsOpen(c) /\ c \in Registered
    /\ conn' = [Touch(conn, c) EXCEPT ![c].sessionId = sessionId]
    /\ sent' = sendMessage(c, Msg("subscription_confirmed", c, sessionId))
    /\ lastEvent' = Event("subscribe_telemetry", c, sessionId, FALSE)
    /\ UNCHANGED <<now, sweepDue, activeConnections, closePending, activeSessions, timers,
                   pendingTicks, handlers, alertLog, probe>>

\* An unsubscribe that stops the simulation its last subscriber leaves.
Unsubscribe_StopsIfLast(c) ==
    /\ IsOpen(c) /\ c \in Registered
    /\ SetWorld(IF Cardinality(SessionConnections(activeConnections, conn[c].sessionId)) <= 1
                THEN stopTelemetrySimulation(World, conn[c].sessionId)
                ELSE World)
    /\ conn' = [Touch(conn, c) EXCEPT ![c].sessionId = NoSession]
    /\ sent' = sendMessage(c, Msg("unsubscription_confirmed", c, conn[c].sessionId))
    /\ lastEvent' = Event("unsubscribe_telemetry", c, conn[c].sessionId, FALSE)
    /\ UNCHANGED <<now, sweepDue, closePending, pendingTicks, handlers, alertLog, probe>>

\* unsubscribe_telemetry: handleUnsubscribeTelemetry
Unsubscribe(c) ==
    /\ IsOpen(c) /\ c \in Registered
    /\ conn' = [Touch(conn, c) EXCEPT ![c].sessionId = NoSession]
    /\ sent' = sendMessage(c, Msg("unsubscription_confirmed", c, conn[c].sessionId))
    /\ lastEvent' = Event("unsubscribe_telemetry", c, conn[c].sessionId, FALSE)
    /\ UNCHANGED <<now, sweepDue, activeConnections, closePending, activeSessions, timers,
                   pendingTicks, handlers, alertLog, probe>>

\* ping: the pong reply of handleClientMessage
Ping(c) ==
    /\ IsOpen(c) /\ c \in Registered
    /\ conn' = Touch(conn, c)
    /\ sent' = sendMessage(c, Msg("pong", c, NoSession))
    /\ lastEvent' = Event("ping", c, NoSession, FALSE)
    /\ UNCHANGED <<now, sweepDue, activeConnections, closePending, activeSessions, timers,
                   pendingTicks, handlers, alertLog, probe>>

\* request_session_status: handleSessionStatusRequest up to `await Session.findOne`
StatusRequest(c, sessionId) ==
    /\ IsOpen(c) /\ c \in Registered
    /\ handlers' = handlers \cup {Handler("status", c, sessionId, 0)}
    /\ conn' = Touch(conn, c)
    /\ sent' = << >>
    /\ lastEvent' = Event("request_session_status", c, sessionId, FALSE)
    /\ UNCHANGED <<now, sweepDue, activeConnections, closePending, activeSessions, timers,
                   pendingTicks, alertLog, probe>>

\* Session.findOne of handleSessionStatusRequest settles: the session_status reply
\* (for a session found or not found; the flag of the event is simulationActive),
\* or session_status_error when the lookup was rejected.
StatusRequestSettled(h, ok) ==
    /\ h \in handlers /\ h.kind = "status"
    /\ handlers' = handlers \ {h}
    /\ IF ok
       THEN /\ sent' = sendMessage(h.conn, Msg("session_status", h.conn, h.sessionId))
            /\ lastEvent' = Event("session_status", h.conn, h.sessionId, IsRunning(h.sessionId))
            /\ conn' = Collect(conn, activeConnections, handlers \ {h})
            /\ UNCHANGED <<activeConnections, activeSessions, timers>>
       ELSE HandlerFails(h, "session_status_error")
    /\ UNCHANGED <<now, sweepDue, closePending, pendingTicks, alertLog, probe>>

-----------------------------------------------------------------------------
(* Protocol errors *)

\* A payload that is closed and unregistered for.
MalformedMessage_Closes(c) ==
    /\ IsOpen(c) /\ c \in Registered
    /\ LET w == handleClientDisconnect(World, c)
       IN  /\ SetWorld(w)
           /\ conn' = Collect([conn EXCEPT ![c].readyState = "CLOSED"], w.ac, handlers)
    /\ closePending' = closePending \cup {c}
    /\ sent' = sendMessage(c, [Msg("error", c, NoSession) EXCEPT
                                  !.detail = <<"Invalid message format">>])
    /\ lastEvent' = Event("malformed", c, NoSession, FALSE)
    /\ UNCHANGED <<now, sweepDue, pendingTicks, handlers, alertLog, probe>>

\* A payload that is not JSON (or is the JSON null): JSON.parse or the read of
\* message.type throws before lastActivity is refreshed, and the catch block of
\* socket.on('message') replies.
MalformedMessage(c) ==
    /\ IsOpen(c) /\ c \in Registered
    /\ sent' = sendMessage(c, [Msg("error", c, NoSession) EXCEPT
                                  !.detail = <<"Invalid message format">>])
    /\ lastEvent' = Event("malformed", c, NoSession, FALSE)
    /\ UNCHANGED <<now, sweepDue, activeConnections, conn, closePending, activeSessions,
                   timers, pendingTicks, handlers, alertLog, probe>>

\* An unknown type answered to every open connection.
UnknownType_ToAll(c) ==
    /\ IsOpen(c) /\ c \in Registered
    /\ conn' = Touch(conn, c)
    /\ sent' = SendEach(activeConnections, {x \in Registered : IsOpen(x)},
                        [Msg("error", c, NoSession) EXCEPT !.detail = SupportedTypes])
    /\ lastEvent' = Event("unknown_type", c, NoSession, FALSE)
    /\ UNCHANGED <<now, sweepDue, activeConnections, closePending, activeSessions, timers,
                   pendingTicks, handlers, alertLog, probe>>

\* A message whose type is none of the six: the default branch of handleClientMessage.
UnknownType(c) ==
    /\ IsOpen(c) /\ c \in Registered
    /\ conn' = Touch(conn, c)
    /\ sent' = sendMessage(c, [Msg("error", c, NoSession) EXCEPT !.detail = SupportedTypes])
    /\ lastEvent' = Event("unknown_type", c, NoSession, FALSE)
    /\ UNCHANGED <<now, sweepDue, activeConnections, closePending, activeSessions, timers,
                   pendingTicks, handlers, alertLog, probe>>

\* A subscribe without sessionId that drops the subscription the connection has.
SubscribeNoSession_Clears(c, hasData) ==
    /\ IsOpen(c) /\ c \in Registered
    /\ conn' = [Touch(conn, c) EXCEPT ![c].sessionId = NoSession]
    /\ sent' = sendMessage(c, [Msg("subscription_error", c, NoSession) EXCEPT
                                  !.detail = <<"sessionId required for telemetry subscription">>])
    /\ lastEvent' = Event("subscribe_no_session", c, conn[c].sessionId, hasData)
    /\ UNCHANGED <<now, sweepDue, activeConnections, closePending, activeSessions, timers,
                   pendingTicks, handlers, alertLog, probe>>

\* subscribe_telemetry without a sessionId.  With a data object
\* handleSubscribeTelemetry replies subscription_error; with no data at all its
\* destructuring throws, and the catch block of socket.on('message') replies.
SubscribeNoSession(c, hasData) ==
    /\ IsOpen(c) /\ c \in Registered
    /\ conn' = Touch(conn, c)
    /\ sent' = sendMessage(c,
                 IF hasData
                 THEN [Msg("subscription_error", c, NoSession) EXCEPT
                          !.detail = <<"sessionId required for telemetry subscription">>]
                 ELSE [Msg("error", c, NoSession) EXCEPT
                          !.detail = <<"Invalid message format">>])
    /\ lastEvent' = Event("subscribe_no_session", c, conn[c].sessionId, hasData)
    /\ UNCHANGED <<now, sweepDue, activeConnections, closePending, activeSessions, timers,
                   pendingTicks, handlers, alertLog, probe>>

\* socket.on('pong'): the client's answer to a ping of the cleanup interval.
Pong(c) ==
    /\ IsOpen(c) /\ c \in Registered
    /\ conn' = Touch(conn, c)
    /\ sent' = << >>
    /\ lastEvent' = Event("pong", c, NoSession, FALSE)
    /\ UNCHANGED <<now, sweepDue, activeConnections, closePending, activeSessions, timers,
                   pendingTicks, handlers, alertLog, probe>>

-----------------------------------------------------------------------------
(* The tick: generateAndBroadcastTelemetry *)

\* A timer callback that moves the simulation and broadcasts nothing.
Tick_Silent(id, r, stored) ==
    /\ id \in DOMAIN timers
    /\ now >= timers[id].nextFire
    /\ timers' = [timers EXCEPT ![id].state = updateSimulationState(@, r),
                                ![id].nextFire = now + timers[id].intervalMs]
    /\ sent' = << >>
    /\ lastEvent' = [Event("tick", NoSession, timers[id].sessionId, FALSE)
                        EXCEPT !.stored = stored]
    /\ UNCHANGED <<now, sweepDue, activeConnections, conn, closePending, activeSessions,
                   pendingTicks, handlers, alertLog, probe>>

\* The timer callback, up to the end of the tick or to `await alert.save()`.
\* `stored` is the outcome of the sample's save, which is started and not awaited:
\* saveTelemetryToDatabase catches its rejection and logs it.
Tick(id, r, stored) ==
    /\ id \in DOMAIN timers
    /\ now >= timers[id].nextFire
    /\ LET tm == timers[id]
           td == TelemetryData(tm.sessionId, updateSimulationState(tm.state, r), now)
           hz == checkForHazards(td, updateSimulationState(tm.state, r), now)
       IN  /\ timers' = [timers EXCEPT ![id].state = hz.state,
                                       ![id].nextFire = now + tm.intervalMs]
           /\ IF hz.alert = NoAlert
              THEN /\ sent' = broadcastTelemetryData(tm.sessionId, td, NoAlert)
                   /\ UNCHANGED pendingTicks
              ELSE /\ sent' = << >>
                   /\ pendingTicks' = pendingTicks \cup {[telemetryData |-> td, alert |-> hz.alert,
                                                        stored |-> stored]}
           /\ alertLog' = IF hz.alert = NoAlert THEN alertLog
                          ELSE alertLog \cup {[sessionId |-> tm.sessionId, timestamp |-> now]}
           /\ lastEvent' = [Event("tick", NoSession, tm.sessionId, hz.alert = NoAlert)
                               EXCEPT !.alert = hz.alert, !.stored = stored]
    /\ UNCHANGED <<now, sweepDue, activeConnections, conn, closePending, activeSessions,
                   handlers, probe>>

\* A tick that a rejected alert.save() ends: nothing is broadcast and the interval
\* of the session is cleared.
TickFinish_DropsOnFailure(p, ok) ==
    /\ p \in pendingTicks
    /\ pendingTicks' = pendingTicks \ {p}
    /\ sent' = IF ok THEN broadcastTelemetryData(p.telemetryData.sessionId, p.telemetryData,
                                                 [p.alert EXCEPT !.error = FALSE])
                     ELSE << >>
    /\ timers' = IF ok THEN timers
                 ELSE [id \in {x \in DOMAIN timers :
                                   timers[x].sessionId # p.telemetryData.sessionId}
                          |-> timers[id]]
    /\ lastEvent' = [Event("tick_finish", NoSession, p.telemetryData.sessionId, TRUE)
                        EXCEPT !.alert = [p.alert EXCEPT !.error = ~ok],
                               !.stored = p.stored]
    /\ UNCHANGED <<now, sweepDue, activeConnections, conn, closePending, activeSessions,
                   handlers, alertLog, probe>>

\* `await alert.save()` settles (ok or rejected): checkForHazards returns the alert
\* and the tick broadcasts.
TickFinish(p, ok) ==
    /\ p \in pendingTicks
    /\ pendingTicks' = pendingTicks \ {p}
    /\ sent' = broadcastTelemetryData(p.telemetryData.sessionId, p.telemetryData,
                                      [p.alert EXCEPT !.error = ~ok])
    /\ lastEvent' = [Event("tick_finish", NoSession, p.telemetryData.sessionId, TRUE)
                        EXCEPT !.alert = [p.alert EXCEPT !.error = ~ok],
                               !.stored = p.stored]
    /\ UNCHANGED <<now, sweepDue, activeConnections, conn, closePending, activeSessions,
                   timers, handlers, alertLog, probe>>

\* A tick whose exception clears the interval of the session.
TickThrows_Kills(id, r, updated) ==
    /\ id \in DOMAIN timers
    /\ now >= timers[id].nextFire
    /\ SetWorld(stopTelemetrySimulation(World, timers[id].sessionId))
    /\ sent' = << >>
    /\ lastEvent' = Event("tick_throws", NoSession, timers[id].sessionId, updated)
    /\ UNCHANGED <<now, sweepDue, conn, closePending, pendingTicks, handlers, alertLog,
                   probe>>

\* A tick whose body throws before broadcastTelemetryData is reached: in
\* updateSimulationState (the state is as it was) or after it (`updated`).  The
\* catch block of generateAndBroadcastTelemetry logs the error; the interval stays.
TickThrows(id, r, updated) ==
    /\ id \in DOMAIN timers
    /\ now >= timers[id].nextFire
    /\ timers' = [timers EXCEPT
                     ![id].state = IF updated THEN updateSimulationState(@, r) ELSE @,
                     ![id].nextFire = now + timers[id].intervalMs]
    /\ sent' = << >>
    /\ lastEvent' = Event("tick_throws", NoSession, timers[id].sessionId, updated)
    /\ UNCHANGED <<now, sweepDue, activeConnections, conn, closePending, activeSessions,
                   pendingTicks, handlers, alertLog, probe>>

-----------------------------------------------------------------------------
(* The cleanup interval *)

\* Staleness that begins one sweep period after the last activity.
IsStale_AtPeriod(c, t) == t - conn[c].lastActivity >= sweepPeriod

\* Staleness that begins at the threshold itself.
IsStale_AtThreshold(c, t) == t - conn[c].lastActivity >= staleThreshold

\* now - connection.lastActivity > staleThreshold
IsStale(c, t) == t - conn[c].lastActivity > staleThreshold

RECURSIVE SweepEach(_, _, _)
\* activeConnections.forEach of the cleanup callback over the keys in `order`:
\* the registries it leaves, the sockets it terminated and those it pinged.
SweepEach(order, w, t) ==
    IF order = << >> THEN [w |-> w, terminated |-> {}, pinged |-> << >>]
    ELSE LET c == Head(order)
         IN  IF IsStale(c, t)
             THEN [SweepEach(Tail(order), handleClientDisconnect(w, c), t)
                      EXCEPT !.terminated = @ \cup {c}]
             ELSE [SweepEach(Tail(order), w, t)
                      EXCEPT !.pinged = (IF IsOpen(c) THEN <<Msg("ping", c, NoSession)>>
                                         ELSE << >>) \o @]

Sweep ==
    /\ now >= sweepDue
    /\ LET res == SweepEach(activeConnections, World, now)
       IN  /\ SetWorld(res.w)
           /\ conn' = Collect([c \in Conns |-> IF c \in res.terminated
                                               THEN [conn[c] EXCEPT !.readyState = "CLOSED"]
                                               ELSE conn[c]],
                              res.w.ac, handlers)
           /\ closePending' = closePending \cup {c \in res.terminated : IsOpen(c)}
           /\ sent' = res.pinged
           /\ lastEvent' = Event("sweep", NoSession,
                                 IF DOMAIN activeSessions \subseteq DOMAIN res.w.as
                                 THEN NoSession
                                 ELSE CHOOSE s \in DOMAIN activeSessions : s \notin DOMAIN res.w.as,
                                 res.terminated # {})
    /\ sweepDue' = sweepDue + sweepPeriod
    /\ UNCHANGED <<now, pendingTicks, handlers, alertLog, probe>>

DuePoints == {sweepDue} \cup {timers[id].nextFire : id \in DOMAIN timers}

\* Time passes up to the next moment a timer is due, and not beyond `limit`.
Advance(t, limit) ==
    /\ t \in DuePoints
    /\ t > now /\ t <= sweepDue /\ t <= ServerStart + limit
    /\ now' = t
    /\ sent' = << >>
    /\ lastEvent' = Event("time", NoSession, NoSession, FALSE)
    /\ UNCHANGED <<sweepDue, activeConnections, conn, closePending, activeSessions, timers,
                   pendingTicks, handlers, alertLog, probe>>

-----------------------------------------------------------------------------
(* The first ten seconds of the server, before the first sweep: clients connect, *)
(* subscribe, start and stop a session one request at a time, and drop; the     *)
(* simulation ticks every 5 s.                                                  *)

Next ==
    \/ \E c \in Conns : Connect(c)
    \/ \E c \in Conns : ClientClose(c)
    \/ \E c \in Conns : CloseEvent(c)
    \/ \E c \in Conns, s \in StartIds, i \in Intervals : handlers = {} /\ StartSession(c, s, i)
    \/ \E h \in handlers, ok \in BOOLEAN, r \in StartDraws : StartSessionSettled(h, ok, r)
    \/ \E c \in Conns : handlers = {} /\ StopSession(c)
    \/ \E h \in handlers, ok \in BOOLEAN : StopSessionSettled(h, ok)
    \/ \E c \in Conns, s \in SessionIds : Subscribe(c, s)
    \/ \E id \in DOMAIN timers, r \in TickDraws : Tick(id, r, TRUE)
    \/ \E p \in pendingTicks, ok \in BOOLEAN : TickFinish(p, ok)
    \/ \E t \in DuePoints : Advance(t, Horizon)

Spec == Init /\ [][Next]_vars

(* The first instant: requests of different clients in flight together *)

StartNext ==
    \/ \E c \in Conns : Connect(c)
    \/ \E c \in Conns : ClientClose(c)
    \/ \E c \in Conns : CloseEvent(c)
    \/ \E c \in Conns, s \in SessionIds, i \in Intervals :
          (\A h \in handlers : h.conn # c) /\ StartSession(c, s, i)
    \/ \E h \in handlers, ok \in BOOLEAN, r \in StartDraws : StartSessionSettled(h, ok, r)
    \/ \E c \in Conns : (\A h \in handlers : h.conn # c) /\ StopSession(c)
    \/ \E h \in handlers, ok \in BOOLEAN : StopSessionSettled(h, ok)
    \/ \E c \in Conns, s \in SessionIds : Subscribe(c, s)
    \/ \E c \in Conns : Unsubscribe(c)

StartSpec == Init /\ [][StartNext]_vars

(* Ninety seconds of connections and sweeps; the simulations tick every 120 s *)

SweepNext ==
    \/ \E c \in Conns : Connect(c)
    \/ \E c \in Conns : ClientClose(c)
    \/ \E c \in Conns : CloseEvent(c)
    \/ \E c \in Conns : ErrorEvent(c)
    \/ \E c \in Conns, s \in StartIds, i \in LongIntervals : handlers = {} /\ StartSession(c, s, i)
    \/ \E h \in handlers, ok \in BOOLEAN, r \in StartDraws : StartSessionSettled(h, ok, r)
    \/ \E c \in Conns, s \in SessionIds : Subscribe(c, s)
    \/ \E c \in Conns : Unsubscribe(c)
    \/ \E c \in Conns : MalformedMessage(c)
    \/ \E c \in Conns : UnknownType(c)
    \/ \E c \in Conns, hasData \in BOOLEAN : SubscribeNoSession(c, hasData)
    \/ \E c \in Conns : Pong(c)
    \/ Sweep
    \/ Advance(sweepDue, SweepHorizon)

SweepSpec == Init /\ [][SweepNext]_vars

(* One client and a simulation that ticks every 2.5 s *)

FineNext ==
    \/ \E c \in FineConns : Connect(c)
    \/ \E c \in FineConns, s \in StartIds, i \in FineIntervals : handlers = {} /\ StartSession(c, s, i)
    \/ \E h \in handlers, ok \in BOOLEAN, r \in StartDraws : StartSessionSettled(h, ok, r)
    \/ \E c \in FineConns : handlers = {} /\ StopSession(c)
    \/ \E h \in handlers, ok \in BOOLEAN : StopSessionSettled(h, ok)
    \/ \E c \in FineConns, i \in FineIntervals : handlers = {} /\ StartSession(c, NoSession, i)
    \/ \E h \in handlers, ok \in BOOLEAN, r \in StartDraws : StartSessionWithoutId(h, ok, r)
    \/ \E id \in DOMAIN timers, r \in TickDraws, stored \in BOOLEAN : Tick(id, r, stored)
    \/ \E id \in DOMAIN timers, r \in TickDraws, updated \in BOOLEAN : TickThrows(id, r, updated)
    \/ \E p \in pendingTicks, ok \in BOOLEAN : TickFinish(p, ok)
    \/ \E t \in DuePoints : Advance(t, FineHorizon)

FineSpec == Init /\ [][FineNext]_vars

(* One client that starts both sessions and moves its subscription between them *)

SwitchNext ==
    \/ \E c \in FineConns : Connect(c)
    \/ \E c \in FineConns, s \in SessionIds, i \in Intervals :
          handlers = {} /\ StartSession(c, s, i)
    \/ \E h \in handlers, ok \in BOOLEAN, r \in StartDraws : StartSessionSettled(h, ok, r)
    \/ \E c \in FineConns, s \in SessionIds : Subscribe(c, s)
    \/ \E c \in FineConns : Unsubscribe(c)
    \/ \E id \in DOMAIN timers, r \in TickDraws : Tick(id, r, TRUE)
    \/ \E p \in pendingTicks, ok \in BOOLEAN : TickFinish(p, ok)
    \/ \E t \in DuePoints : Advance(t, Horizon)

SwitchSpec == Init /\ [][SwitchNext]_vars

(* One client and a simulation that ticks every 4999, 5000 or 5001 ms *)

CooldownNext ==
    \/ \E c \in FineConns : Connect(c)
    \/ \E c \in FineConns, s \in StartIds, i \in CooldownIntervals :
          handlers = {} /\ StartSession(c, s, i)
    \/ \E h \in handlers, ok \in BOOLEAN, r \in StartDraws : StartSessionSettled(h, ok, r)
    \/ \E id \in DOMAIN timers, r \in TickDraws : Tick(id, r, TRUE)
    \/ \E p \in pendingTicks, ok \in BOOLEAN : TickFinish(p, ok)
    \/ \E t \in DuePoints : Advance(t, CooldownHorizon)

CooldownSpec == Init /\ [][CooldownNext]_vars

(* One client that starts a session, subscribes to it and stays: the interval of *)
(* the session fires when it is due (setInterval), a pending alert.save()       *)
(* settles, and the clock runs on to the next due timer.                        *)

LiveNext ==
    \/ \E c \in FineConns : Connect(c)
    \/ \E c \in FineConns, s \in StartIds, i \in Intervals :
          handlers = {} /\ StartSession(c, s, i)
    \/ \E h \in handlers, ok \in BOOLEAN, r \in StartDraws : StartSessionSettled(h, ok, r)
    \/ \E c \in FineConns, s \in StartIds : Subscribe(c, s)
    \/ \E id \in DOMAIN timers, r \in TickDraws : Tick(id, r, TRUE)
    \/ \E p \in pendingTicks, ok \in BOOLEAN : TickFinish(p, ok)
    \/ \E t \in DuePoints : Advance(t, Horizon)

LiveSpec ==
    /\ Init /\ [][LiveNext]_vars
    /\ WF_vars(\E id \in DOMAIN timers, r \in TickDraws : Tick(id, r, TRUE))
    /\ WF_vars(\E p \in pendingTicks, ok \in BOOLEAN : TickFinish(p, ok))
    /\ WF_vars(\E t \in DuePoints : Advance(t, Horizon))

(* Two clients of one session, and sockets whose send() throws *)

BreakNext ==
    \/ \E c \in Conns : Connect(c)
    \/ \E c \in Conns : SocketBreaks(c)
    \/ \E c \in Conns, s \in StartIds, i \in Intervals : handlers = {} /\ StartSession(c, s, i)
    \/ \E h \in handlers, ok \in BOOLEAN, r \in StartDraws : StartSessionSettled(h, ok, r)
    \/ \E c \in Conns, s \in StartIds : Subscribe(c, s)
    \/ \E id \in DOMAIN timers, r \in TickDraws : Tick(id, r, TRUE)
    \/ \E p \in pendingTicks, ok \in BOOLEAN : TickFinish(p, ok)
    \/ \E t \in DuePoints : Advance(t, Horizon)

BreakSpec == Init /\ [][BreakNext]_vars

(* Two clients that connect as the server starts, and two sessions, through     *)
(* ninety seconds: a tick after 90 s, stops, disconnects and the sweeps         *)

FrameNext ==
    \/ \E c \in Conns : now = ServerStart /\ Connect(c)
    \/ \E c \in Conns : ClientClose(c)
    \/ \E c \in Conns : CloseEvent(c)
    \/ \E c \in Conns, s \in SessionIds, i \in FrameIntervals :
          handlers = {} /\ conn[c].sessionId = NoSession /\ StartSession(c, s, i)
    \/ \E h \in handlers, ok \in BOOLEAN, r \in StartDraws : StartSessionSettled(h, ok, r)
    \/ \E c \in Conns : handlers = {} /\ StopSession(c)
    \/ \E h \in handlers, ok \in BOOLEAN : StopSessionSettled(h, ok)
    \/ \E id \in DOMAIN timers, r \in TickDraws : Tick(id, r, TRUE)
    \/ \E p \in pendingTicks, ok \in BOOLEAN : TickFinish(p, ok)
    \/ \E id \in DOMAIN timers, r \in TickDraws, updated \in BOOLEAN : TickThrows(id, r, updated)
    \/ Sweep
    \/ \E t \in DuePoints : Advance(t, FrameHorizon)

FrameSpec == Init /\ [][FrameNext]_vars

(* The first instant, two clients and every kind of message; no client leaves *)

MessageNext ==
    \/ \E c \in Conns : Connect(c)
    \/ \E c \in Conns, s \in StartIds, i \in Intervals : handlers = {} /\ StartSession(c, s, i)
    \/ \E h \in handlers, ok \in BOOLEAN, r \in StartDraws : StartSessionSettled(h, ok, r)
    \/ \E c \in Conns : handlers = {} /\ StopSession(c)
    \/ \E h \in handlers, ok \in BOOLEAN : StopSessionSettled(h, ok)
    \/ \E c \in Conns, s \in SessionIds : Subscribe(c, s)
    \/ \E c \in Conns : Unsubscribe(c)
    \/ \E c \in Conns : Ping(c)
    \/ \E c \in Conns, s \in SessionIds : handlers = {} /\ StatusRequest(c, s)
    \/ \E h \in handlers, ok \in BOOLEAN : StatusRequestSettled(h, ok)
    \/ \E c \in Conns : MalformedMessage(c)
    \/ \E c \in Conns : UnknownType(c)
    \/ \E c \in Conns, hasData \in BOOLEAN : SubscribeNoSession(c, hasData)

MessageSpec == Init /\ [][MessageNext]_vars

(* Heartbeats: a client that sends no message and answers every ping of a sweep *)
(* with one pong before the clock moves on, beside a client that answers none   *)

DiligentConns == {"c1"}

\* The last sweep's ping to connection c is still to be answered: nothing has come
\* from c since that sweep ran.
PingUnanswered(c) ==
    /\ c \in Registered /\ IsOpen(c)
    /\ conn[c].lastActivity < sweepDue - sweepPeriod

HeartbeatNext ==
    \/ \E c \in Conns : Connect(c)
    \/ \E c \in DiligentConns : PingUnanswered(c) /\ Pong(c)
    \/ \E c \in Conns \ DiligentConns : Ping(c)
    \/ \E c \in Conns \ DiligentConns : ClientClose(c)
    \/ \E c \in Conns \ DiligentConns : CloseEvent(c)
    \/ Sweep
    \/ (\A c \in DiligentConns : ~PingUnanswered(c)) /\ Advance(sweepDue, SweepHorizon)

HeartbeatSpec == Init /\ [][HeartbeatNext]_vars

(* Clients that connect, send a message now and then or fall silent, while the   *)
(* cleanup interval fires every 30 s (setInterval) and the clock runs on        *)

IdleNext ==
    \/ \E c \in Conns : Connect(c)
    \/ \E c \in Conns : Ping(c)
    \/ \E c \in Conns : UnknownType(c)
    \/ \E c \in Conns : MalformedMessage(c)
    \/ \E c \in Conns : Pong(c)
    \/ Sweep
    \/ Advance(sweepDue, SweepHorizon)

IdleSpec ==
    /\ Init /\ [][IdleNext]_vars
    /\ WF_vars(Sweep)
    /\ WF_vars(Advance(sweepDue, SweepHorizon))

-----------------------------------------------------------------------------
(* checkForHazards alone, on samples around the thresholds of its rules *)

\* Speeds in hundredths of km/h and distances in hundredths of a metre.
ProbeSpeeds == {2000, 3600, 5000, 7200, 8000, 8001, 9000, 10800, 12000, 12001, 13000, 14000}
ProbeDistances == {300, 500, 501, 1999, 2000, 2001, 2500, 2999, 3000, 4500, 4501, 6000,
                   10000, 30000}
\* lastAlertTime of the state: never, a cooldown ago, and one millisecond less.
ProbeLastAlerts == {0, ServerStart - alertCooldown, ServerStart - alertCooldown + 1}

HazardInit ==
    /\ InitServer
    /\ probe \in [speed : ProbeSpeeds, obstacleDistance : ProbeDistances,
                  lastAlertTime : ProbeLastAlerts, done : {FALSE}, alert : {NoAlert}]

\* One call of checkForHazards(telemetryData, state) at time `now`.
CheckProbe ==
    /\ ~probe.done
    /\ LET state == [NewSimulationState(CHOOSE r \in StartDraws : TRUE)
                        EXCEPT !.lastAlertTime = probe.lastAlertTime]
           td == [TelemetryData("sessA1", state, now) EXCEPT
                     !.speed = probe.speed, !.obstacleDistance = probe.obstacleDistance]
       IN  probe' = [probe EXCEPT !.done = TRUE,
                                  !.alert = checkForHazards(td, state, now).alert]
    /\ UNCHANGED <<now, sweepDue, activeConnections, conn, closePending, activeSessions,
                   timers, pendingTicks, handlers, sent, lastEvent, alertLog>>

HazardNext == CheckProbe

HazardSpec == HazardInit /\ [][HazardNext]_vars

-----------------------------------------------------------------------------
(* The motion model alone: updateSimulationState on fresh states and on states *)
(* near the ends of the ranges, under the extreme draws of every branch        *)

\* The draws of a fresh simulation at the ends of their ranges.
MotionStartDraws ==
    [speed : {0, 999}, lat : {500}, lng : {500}, obstacle : {0, 999}, trend : {0, 999}]

\* States the simulation is in after earlier ticks: speed and obstacle distance at
\* and near the ends of their ranges and at the thresholds of the scenario jumps.
MotionStates ==
    { [NewSimulationState(CHOOSE r \in StartDraws : TRUE) EXCEPT
          !.currentSpeed = v, !.currentObstacleDistance = d, !.speedTrend = tr] :
        v \in {20000, 21000, 139000, 140000},
        d \in {5000, 6000, 49995, 100005, 299000, 300000},
        tr \in {-1, 1} }

\* A tick's draws: trend flip or not, least or greatest speed change, and for the
\* obstacle a scenario jump, the large jitter at -10 m and +9.98 m, the small
\* jitter at -2.5 m and +2.495 m.
MotionDraws ==
    { Draw(f, v, o[1], o[2], o[3]) :
        f \in {0, 500}, v \in {0, 999},
        o \in { <<0, 0, 0>>, <<0, 999, 0>>, <<0, 999, 999>>, <<500, 0, 0>>, <<500, 0, 999>> } }

MotionInit ==
    /\ InitServer
    /\ \E st \in MotionStates \cup {NewSimulationState(r) : r \in MotionStartDraws} :
          probe = [state |-> st, sample |-> TelemetryData("sessA1", st, now), steps |-> 0]

\* One tick's updateSimulationState and the telemetryData built from the state.
MotionStep(r) ==
    /\ probe.steps < MotionSteps
    /\ LET st == updateSimulationState(probe.state, r)
       IN  probe' = [state |-> st, sample |-> TelemetryData("sessA1", st, now),
                     steps |-> probe.steps + 1]
    /\ UNCHANGED <<now, sweepDue, activeConnections, conn, closePending, activeSessions,
                   timers, pendingTicks, handlers, sent, lastEvent, alertLog>>

MotionNext == \E r \in MotionDraws : MotionStep(r)

MotionSpec == MotionInit /\ [][MotionNext]_vars

-----------------------------------------------------------------------------
(* The dashboard client (TelemetryDashboard): its socket, its reconnectAttempts  *)
(* state and its reconnect timer.  The callbacks initializeWebSocket and         *)
(* attemptReconnection are memoized (useCallback): the handlers of every socket  *)
(* that initializeWebSocket creates read the reconnectAttempts of the render in  *)
(* which initializeWebSocket was made, that is the render in which backendUrl,   *)
(* sessionId or isSessionActive last changed.                                    *)

\* Scheduled attempts after which the model lets no further close happen.
AttemptBound == 7

\* `reconnectAttempts >= 5`
maxReconnectAttempts == 5

\* `1000 * Math.pow(2, reconnectAttempts)`
baseDelay == 1000

\* `Math.min(..., 10000)`
maxDelay == 10000

\* `event.code !== 1000`
NormalClosure == 1000

\* Close codes: a normal closure, going away, an abnormal closure (failed connect).
CloseCodes == {NormalClosure, 1001, 1006}

\* Math.min(1000 * Math.pow(2, reconnectAttempts), 10000)
ReconnectDelay(attempts) == Min(baseDelay * 2^attempts, maxDelay)

\* The component after its first render and effect with the given props.
Mounted(active) ==
    [reconnectAttempts |-> 0, closureAttempts |-> 0, isSessionActive |-> active,
     readyState |-> IF active THEN "CONNECTING" ELSE "NONE",
     timeout |-> << >>, op |-> "mount", code |-> 0]

DashboardInit ==
    /\ InitServer
    /\ \E active \in BOOLEAN : probe = Mounted(active)

\* sessionId or isSessionActive changes while no socket is connecting: the render
\* makes new callbacks over the current reconnectAttempts, the cleanup of the
\* effect clears the timer and closes the socket with code 1000, and the effect
\* calls the new initializeWebSocket if the session is active.
SessionProps(active) ==
    /\ probe.readyState # "CONNECTING"
    /\ probe' = [probe EXCEPT
                    !.closureAttempts = probe.reconnectAttempts,
                    !.isSessionActive = active,
                    !.readyState = IF active THEN "CONNECTING"
                                   ELSE IF probe.readyState = "NONE" THEN "NONE" ELSE "CLOSED",
                    !.timeout = << >>, !.op = "props", !.code = 0]
    /\ UNCHANGED <<now, sweepDue, activeConnections, conn, closePending, activeSessions,
                   timers, pendingTicks, handlers, sent, lastEvent, alertLog>>

\* ws.onopen
SocketOpen ==
    /\ probe.readyState = "CONNECTING"
    /\ probe' = [probe EXCEPT !.readyState = "OPEN", !.reconnectAttempts = 0,
                              !.op = "open", !.code = 0]
    /\ UNCHANGED <<now, sweepDue, activeConnections, conn, closePending, activeSessions,
                   timers, pendingTicks, handlers, sent, lastEvent, alertLog>>

\* attemptReconnection, as the handlers of the socket see it: the limit and the
\* delay are computed from the reconnectAttempts of the callback's render, the
\* increment is applied to the state (`prev => prev + 1`).
attemptReconnection(p) ==
    IF p.closureAttempts >= maxReconnectAttempts THEN p
    ELSE [p EXCEPT !.reconnectAttempts = @ + 1,
                   !.timeout = <<ReconnectDelay(p.closureAttempts)>>]

\* ws.onclose with the close code of the event; a connection attempt that fails
\* closes with an abnormal code.
SocketClose(code) ==
    /\ probe.readyState \in {"CONNECTING", "OPEN"}
    /\ probe.readyState = "CONNECTING" => code # NormalClosure
    /\ probe.reconnectAttempts < AttemptBound
    /\ LET closed == [probe EXCEPT !.readyState = "CLOSED", !.op = "close", !.code = code]
       IN  probe' = IF code # NormalClosure /\ probe.isSessionActive
                    THEN attemptReconnection(closed)
                    ELSE closed
    /\ UNCHANGED <<now, sweepDue, activeConnections, conn, closePending, activeSessions,
                   timers, pendingTicks, handlers, sent, lastEvent, alertLog>>

\* The reconnect timer fires: initializeWebSocket makes a new socket unless the
\* current one is open.
ReconnectTimeout ==
    /\ probe.timeout # << >>
    /\ probe' = [probe EXCEPT
                    !.readyState = IF probe.readyState = "OPEN" THEN "OPEN" ELSE "CONNECTING",
                    !.timeout = << >>, !.op = "timeout", !.code = 0]
    /\ UNCHANGED <<now, sweepDue, activeConnections, conn, closePending, activeSessions,
                   timers, pendingTicks, handlers, sent, lastEvent, alertLog>>

DashboardNext ==
    \/ \E active \in BOOLEAN : SessionProps(active)
    \/ SocketOpen
    \/ \E code \in CloseCodes : SocketClose(code)
    \/ ReconnectTimeout

DashboardSpec == DashboardInit /\ [][DashboardNext]_vars

-----------------------------------------------------------------------------
(* Properties *)

TimersOf(sessionId) == {id \in DOMAIN timers : timers[id].sessionId = sessionId}
Subscribers(sessionId) == {c \in Registered : conn[c].sessionId = sessionId}
\* The last step was a tick, or the end of one, that published its sample.
Published == lastEvent.op \in {"tick", "tick_finish"} /\ lastEvent.flag
\* How many messages of a type the last step sent to connection c.
SentTo(c, type) == Cardinality({i \in DOMAIN sent : sent[i].type = type /\ sent[i].to = c})

OneTimerPerSession ==
    \A s \in SessionIds :
        /\ Cardinality(TimersOf(s)) = (IF IsRunning(s) THEN 1 ELSE 0)
        /\ IsRunning(s) => activeSessions[s].telemetryInterval \in TimersOf(s)

StartOfRunningIsNoOp ==
    (lastEvent'.op = "session_started" /\ IsRunning(lastEvent'.sessionId))
        => activeSessions' = activeSessions /\ timers' = timers

\* C1: through start_session, stop_session, subscribe, unsubscribe and disconnect
\* events, with requests of two connections in flight together, every session id
\* has at most one activeSessions entry and one live timer (the entry's own), and a
\* start for an id that is running leaves the entry, its state and its timer as
\* they were.
C1_OneSimulationPerSession == []OneTimerPerSession /\ [][StartOfRunningIsNoOp]_vars

\* A start_session that found its session running, with its one timer.
C1_Witness ==
    /\ lastEvent.op = "session_started" /\ lastEvent.flag
    /\ Cardinality(TimersOf(lastEvent.sessionId)) = 1
    /\ \A c \in Conns : conn[c].sessionId = lastEvent.sessionId

\* C2: once stopTelemetrySimulation(S) has returned and until S is started again,
\* no telemetry_data message for S is sent to any connection, a tick suspended at
\* its alert save included: what is sent is sent for a running session.
C2_NoTelemetryAfterStop ==
    \A i \in DOMAIN sent :
        sent[i].type = "telemetry_data" => IsRunning(sent[i].sessionId)

\* C3: a tick of session S never begins while an earlier tick of S has not
\* finished (is suspended at its alert save).
C3_TicksNeverOverlap ==
    [][lastEvent'.op = "tick"
          => \A p \in pendingTicks : p.telemetryData.sessionId # lastEvent'.sessionId]_vars

\* C4: any two alerts raised for one session id are at least 5000 ms apart, across
\* a stop and a restart of the session's simulation too.
C4_AlertsCooldownApart ==
    \A a, b \in alertLog :
        (a.sessionId = b.sessionId /\ a.timestamp < b.timestamp)
            => b.timestamp - a.timestamp >= 5000

\* C5: a publish for session S sends telemetry_data once to each registered
\* connection that is subscribed to S and open, and to no other connection.
C5_TelemetryToSubscribersOnly ==
    Published =>
        /\ \A i \in DOMAIN sent :
              sent[i].type = "telemetry_data" => sent[i].sessionId = lastEvent.sessionId
        /\ \A c \in Conns :
              SentTo(c, "telemetry_data") =
                 (IF c \in Registered /\ conn[c].readyState = "OPEN"
                        /\ conn[c].sessionId = lastEvent.sessionId
                  THEN 1 ELSE 0)

\* A publish that reached one connection and passed by another that is registered
\* and open but subscribed to a different session.
C5_Witness ==
    /\ Published
    /\ \E c, d \in Conns :
          /\ SentTo(c, "telemetry_data") = 1
          /\ d \in Registered /\ conn[d].readyState = "OPEN"
          /\ conn[d].sessionId \notin {NoSession, lastEvent.sessionId}
          /\ SentTo(d, "telemetry_data") = 0

\* C6: a tick with a critical alert sends one global_alert to every registered
\* open connection, whatever its subscription; a tick with no alert or a medium
\* or high one, and any other step, sends none.
C6_GlobalAlertIffCritical ==
    \A c \in Conns :
        SentTo(c, "global_alert") =
           (IF Published /\ lastEvent.alert.severity = "critical"
                 /\ c \in Registered /\ conn[c].readyState = "OPEN"
            THEN 1 ELSE 0)

\* A critical tick whose global_alert reached a connection with no subscription
\* and one subscribed to the source session.
C6_Witness ==
    /\ Published /\ lastEvent.alert.severity = "critical"
    /\ \E c, d \in Conns :
          /\ conn[c].sessionId = NoSession /\ SentTo(c, "global_alert") = 1
          /\ conn[d].sessionId = lastEvent.sessionId /\ SentTo(d, "global_alert") = 1

\* C7: in a tick with a critical alert every subscribed open connection is sent
\* the tick's telemetry_data, and all of these go out before the first global_alert.
C7_TelemetryBeforeGlobalAlert ==
    (Published /\ lastEvent.alert.severity = "critical") =>
        /\ \A c \in Subscribers(lastEvent.sessionId) :
              conn[c].readyState = "OPEN" => SentTo(c, "telemetry_data") = 1
        /\ \A i, j \in DOMAIN sent :
              (sent[i].type = "telemetry_data" /\ sent[j].type = "global_alert") => i < j

\* A critical tick with two subscribers: two telemetry_data, then two global_alert.
C7_Witness ==
    /\ Published /\ lastEvent.alert.severity = "critical"
    /\ Len(sent) = 4
    /\ sent[2].type = "telemetry_data" /\ sent[3].type = "global_alert"

LastSubscriberStops ==
    lastEvent'.op \in {"close", "error", "sweep"} =>
        \A s \in SessionIds :
            (\E c \in Registered \ Registered' : conn[c].sessionId = s)
                => (IsRunning(s)' <=> (IsRunning(s)
                                        /\ \E c \in Registered' : conn[c].sessionId = s))

\* C8: when a close event, an error event or the sweep unregisters a connection
\* subscribed to S, the simulation of S is stopped if and only if no other
\* registered connection is subscribed to S; with another subscriber it runs on.
C8_StopIffLastSubscriber == [][LastSubscriberStops]_vars

\* A subscriber of a running session has closed, another remains, and the
\* simulation runs on.
C8_Witness ==
    /\ lastEvent.op = "close" /\ lastEvent.flag
    /\ lastEvent.sessionId # NoSession
    /\ Subscribers(lastEvent.sessionId) # {}
    /\ IsRunning(lastEvent.sessionId)

SweepRemovesStale ==
    lastEvent'.op = "sweep" =>
        /\ Registered' = {c \in Registered : now - conn[c].lastActivity <= 60000}
        /\ \A c \in Registered \ Registered' : conn'[c].readyState # "OPEN"
        /\ \A s \in SessionIds :
              ( /\ \E c \in Registered \ Registered' : conn[c].sessionId = s
                /\ \A c \in Registered' : conn[c].sessionId # s )
                  => ~IsRunning(s)'

\* C9: a sweep terminates and unregisters exactly the connections whose last
\* activity is more than 60000 ms old, and stops in the same sweep the simulation
\* of a session whose last subscriber it removed.
C9_SweepRemovesStale == [][SweepRemovesStale]_vars

\* A sweep that removed a connection and with it stopped a simulation, and kept a
\* connection whose last activity is exactly 60000 ms old.
C9_Witness ==
    /\ lastEvent.op = "sweep" /\ lastEvent.flag
    /\ lastEvent.sessionId # NoSession
    /\ \E c \in Registered : now - conn[c].lastActivity = 60000

\* The rule table of the hazard classifier as the contract states it, first match
\* first, on v km/h and d metres given in hundredths:
\*   d <= 5; d <= 0.7 (v/3.6)^2 / 14 = v^2 / 259.2; v > 120; d < 30 and v > 80; d < 20.
RuleTable(v, d) ==
    CASE d <= 5 * 100                            -> <<"emergency_brake", "critical">>
      [] d > 5 * 100 /\ 2592 * d * 10 <= v * v   -> <<"collision_warning", "high">>
      [] OTHER ->
           IF v > 120 * 100 THEN <<"speed_warning", "medium">>
           ELSE IF d < 30 * 100 /\ v > 80 * 100 THEN <<"collision_warning", "high">>
           ELSE IF d < 20 * 100 THEN <<"collision_warning", "medium">>
           ELSE <<"none", "none">>

\* C10: outside the cooldown checkForHazards classifies a sample by the first
\* matching rule of the table, whatever else the state holds; in particular
\* (130, 100) is speed_warning/medium, (50, 3) is emergency_brake/critical and
\* (90, 25) is collision_warning/high.
C10_ClassificationByRuleOrder ==
    /\ RuleTable(13000, 10000) = <<"speed_warning", "medium">>
    /\ RuleTable(5000, 300) = <<"emergency_brake", "critical">>
    /\ RuleTable(9000, 2500) = <<"collision_warning", "high">>
    /\ (probe.done /\ now - probe.lastAlertTime >= 5000)
          => <<probe.alert.type, probe.alert.severity>>
                = RuleTable(probe.speed, probe.obstacleDistance)

\* A sample classified exactly one cooldown after the last alert: 130 km/h with the
\* obstacle at 60 m, inside the stopping distance, is collision_warning/high.
C10_Witness ==
    /\ probe.done
    /\ probe.speed = 13000 /\ probe.obstacleDistance = 6000
    /\ probe.lastAlertTime = now - 5000
    /\ probe.alert.type = "collision_warning" /\ probe.alert.severity = "high"

\* The sample a tick step has just built for session s, as <<type, severity>> of
\* the rule it triggers.
TickHazard(s) ==
    LET id == CHOOSE x \in DOMAIN timers' : timers'[x].sessionId = s
        st == timers'[id].state
    IN  RuleTable((st.currentSpeed + 5) \div 10, (st.currentObstacleDistance + 5) \div 10)

CooldownSuppresses ==
    (lastEvent'.op = "tick") =>
        \A id \in DOMAIN timers :
            ( /\ timers[id].state.lastAlertTime > 0
              /\ TickHazard(timers[id].sessionId)[1] # "none" )
                => ((lastEvent'.alert = NoAlert) <=> (now - timers[id].state.lastAlertTime < 5000))

\* C11: of two hazard-triggering samples of one running simulation evaluated at
\* t1 < t2, the first raising an alert, the second yields null when t2 - t1 < 5000
\* and an alert when t2 - t1 >= 5000.
C11_CooldownBoundary == [][CooldownSuppresses]_vars

\* A second alert raised exactly 5000 ms after the first.
C11_Witness ==
    /\ lastEvent.op = "tick" /\ lastEvent.alert # NoAlert
    /\ [sessionId |-> lastEvent.sessionId, timestamp |-> now - 5000] \in alertLog

LastAlertTimeFrame ==
    \A id \in DOMAIN timers \cap DOMAIN timers' :
        timers'[id].state.lastAlertTime =
           (IF /\ lastEvent'.op = "tick"
               /\ lastEvent'.sessionId = timers[id].sessionId
               /\ lastEvent'.alert # NoAlert
            THEN now
            ELSE timers[id].state.lastAlertTime)

\* C12: checkForHazards changes lastAlertTime only when it returns an alert, and
\* then to the evaluation time; an evaluation inside the cooldown and one in which
\* no rule matches leave it as it was.
C12_LastAlertTimeFrame == [][LastAlertTimeFrame]_vars

\* A tick with the obstacle at 5 m, 4999 ms after an alert: no alert, and
\* lastAlertTime is still the time of the earlier one.
C12_Witness ==
    /\ lastEvent.op = "tick" /\ lastEvent.alert = NoAlert
    /\ \E id \in DOMAIN timers :
          /\ timers[id].state.currentObstacleDistance = 5000
          /\ timers[id].state.lastAlertTime = now - 4999

\* C13: in every simulation state, fresh or updated any number of times along any
\* branch of the draws, 20 <= currentSpeed <= 140 and 5 <= currentObstacleDistance
\* <= 300 (in thousandths), and the telemetry sample built from it carries values
\* in the same ranges (in hundredths).
C13_MotionWithinBounds ==
    /\ 20 * 1000 <= probe.state.currentSpeed /\ probe.state.currentSpeed <= 140 * 1000
    /\ 5 * 1000 <= probe.state.currentObstacleDistance
    /\ probe.state.currentObstacleDistance <= 300 * 1000
    /\ 20 * 100 <= probe.sample.speed /\ probe.sample.speed <= 140 * 100
    /\ 5 * 100 <= probe.sample.obstacleDistance /\ probe.sample.obstacleDistance <= 300 * 100

\* Two updates that ended with the speed held at 140 km/h and the obstacle at 5 m.
C13_Witness ==
    /\ probe.steps = 2
    /\ probe.state.currentSpeed = 140000 /\ probe.sample.speed = 14000
    /\ probe.state.currentObstacleDistance = 5000 /\ probe.sample.obstacleDistance = 500

RouteProgressAccumulates ==
    (lastEvent'.op = "tick") =>
        \A id \in DOMAIN timers :
            timers[id].sessionId = lastEvent'.sessionId =>
                LET old == timers[id].state
                    new == timers'[id].state
                IN  /\ ~new.routeProgress.nan /\ ~old.routeProgress.nan
                    /\ new.routeProgress.v =
                          old.routeProgress.v + (new.currentSpeed * timers[id].intervalMs) \div 3600
                    /\ new.routeProgress.v >= old.routeProgress.v
                    /\ ~new.currentLat.nan /\ ~new.currentLng.nan

\* C14: routeProgress starts at 0 and each tick adds the displacement
\* speed_ms * tickIntervalMillis / 1000 of the session's tick interval (in
\* millimetres: speed * intervalMs / 3600), so it is a number that never decreases,
\* and currentLat and currentLng stay numbers.
C14_RouteProgressAccumulates == [][RouteProgressAccumulates]_vars

OnlyOwnSubscriptionDelivered ==
    /\ \A i \in DOMAIN sent :
          sent[i].type = "telemetry_data" => sent[i].sessionId = conn[sent[i].to].sessionId
    /\ Published =>
          \A c \in Registered :
              (conn[c].readyState = "OPEN" /\ conn[c].sessionId = lastEvent.sessionId)
                  => SentTo(c, "telemetry_data") = 1

SubscribeReplaces ==
    (lastEvent'.op = "subscribe_telemetry") =>
        conn' = [conn EXCEPT ![lastEvent'.conn].sessionId = lastEvent'.sessionId,
                             ![lastEvent'.conn].lastActivity = now]

\* C15: a connection has one subscription at a time: subscribe_telemetry for B
\* replaces the subscription to A, and every publish from then on delivers B's
\* telemetry_data to the connection and none of A's.
C15_SubscriptionReplaced == []OnlyOwnSubscriptionDelivered /\ [][SubscribeReplaces]_vars

\* Both sessions run, the connection is subscribed to one and a tick of the other
\* has published: nothing was sent.
C15_Witness ==
    /\ Published /\ sent = << >>
    /\ \A s \in SessionIds : IsRunning(s)
    /\ \E c \in Registered :
          /\ conn[c].readyState = "OPEN"
          /\ conn[c].sessionId \in SessionIds \ {lastEvent.sessionId}

ProtocolErrors == {"malformed", "unknown_type", "subscribe_no_session"}

ProtocolErrorKeepsConnection ==
    /\ lastEvent'.op \in ProtocolErrors =>
          /\ activeConnections' = activeConnections
          /\ closePending' = closePending
          /\ \A c \in Conns : /\ conn'[c].sessionId = conn[c].sessionId
                               /\ conn'[c].readyState = conn[c].readyState
    /\ Registered' # Registered \cup Registered'
          => lastEvent'.op \in {"close", "error", "sweep"}
    /\ (\E c \in Conns : conn[c].readyState = "OPEN" /\ conn'[c].readyState # "OPEN")
          => lastEvent'.op \in {"peer_close", "error", "sweep"}

\* C16: a protocol error (payload that is not JSON, unknown message type, missing
\* sessionId) never closes or unregisters a connection and leaves its subscription
\* as it was; connections leave the registry only by a close event, an error event
\* of the socket or the staleness sweep, and the server closes a socket only in
\* the sweep.
C16_ProtocolErrorKeepsConnection == [][ProtocolErrorKeepsConnection]_vars

\* A subscribed connection has sent a payload that is not JSON and is still
\* registered, open and subscribed.
C16_Witness ==
    /\ lastEvent.op = "malformed"
    /\ lastEvent.conn \in Registered
    /\ conn[lastEvent.conn].readyState = "OPEN"
    /\ conn[lastEvent.conn].sessionId = "sessA1"

\* C17: a message of unknown type is answered with one error that lists the six
\* supported types, a payload that is not JSON with one error whose message is
\* 'Invalid message format', each to the originating connection and to no other.
C17_OneErrorReply ==
    /\ lastEvent.op = "unknown_type" =>
          /\ Len(sent) = 1
          /\ sent[1].type = "error" /\ sent[1].to = lastEvent.conn
          /\ Len(sent[1].detail) = 6
          /\ Range(sent[1].detail) =
                {"start_session", "stop_session", "subscribe_telemetry",
                 "unsubscribe_telemetry", "request_session_status", "ping"}
    /\ lastEvent.op = "malformed" =>
          /\ Len(sent) = 1
          /\ sent[1].type = "error" /\ sent[1].to = lastEvent.conn
          /\ sent[1].detail = <<"Invalid message format">>

\* An unknown type from one connection while another is registered and open.
C17_Witness ==
    /\ lastEvent.op = "unknown_type"
    /\ Len(sent) = 1 /\ sent[1].to = lastEvent.conn
    /\ \E c \in Registered \ {lastEvent.conn} : conn[c].readyState = "OPEN"

SubscribeWithoutSessionIdKeeps ==
    lastEvent'.op = "subscribe_no_session" =>
        /\ Len(sent') = 1
        /\ sent'[1].type \in {"subscription_error", "error"}
        /\ sent'[1].to = lastEvent'.conn
        /\ \A c \in Conns : conn'[c].sessionId = conn[c].sessionId
        /\ activeSessions' = activeSessions /\ timers' = timers
        /\ activeConnections' = activeConnections

\* C18: subscribe_telemetry without a sessionId is answered with one
\* subscription_error or error message to the originating connection alone and
\* leaves every connection's subscription and the running simulations as they were.
C18_SubscribeWithoutSessionId == [][SubscribeWithoutSessionIdKeeps]_vars

\* A connection subscribed to a running session has sent a subscribe without
\* sessionId: subscription_error, and it is subscribed as before.
C18_Witness ==
    /\ lastEvent.op = "subscribe_no_session" /\ lastEvent.flag
    /\ Len(sent) = 1 /\ sent[1].type = "subscription_error"
    /\ conn[lastEvent.conn].sessionId = "sessA1" /\ IsRunning("sessA1")

\* A tick, or the end of one, whose sample or alert the storage rejected.
StorageFailed(e) == e.op \in {"tick", "tick_finish"} /\ (~e.stored \/ e.alert.error)

StorageFailureKeepsLoop ==
    StorageFailed(lastEvent') =>
        LET e == lastEvent'
            s == e.sessionId
        IN  /\ activeSessions' = activeSessions
            /\ DOMAIN timers' = DOMAIN timers
            /\ e.op = "tick" =>
                   \E id \in DOMAIN timers' :
                       /\ timers'[id].sessionId = s
                       /\ timers'[id].nextFire = now + timers'[id].intervalMs
            /\ e.op = "tick_finish" => timers' = timers
            /\ (e.op = "tick_finish" \/ e.flag) =>
                   \A c \in Registered :
                       (conn'[c].sessionId = s /\ conn'[c].readyState = "OPEN") =>
                           /\ Cardinality({i \in DOMAIN sent' :
                                              /\ sent'[i].type = "telemetry_data"
                                              /\ sent'[i].to = c}) = 1
                           /\ \E i \in DOMAIN sent' :
                                  /\ sent'[i].type = "telemetry_data" /\ sent'[i].to = c
                                  /\ sent'[i].sessionId = s
                                  /\ sent'[i].alert = e.alert

\* C19: a tick whose telemetry save or alert save is rejected still broadcasts its
\* telemetry_data, with the alert it classified, to every subscriber of the session,
\* leaves activeSessions as it was and the session's interval armed for the next tick.
C19_StorageFailureKeepsLoop == [][StorageFailureKeepsLoop]_vars

\* Both saves of a tick were rejected, and the subscriber of the running session
\* has its telemetry_data with the alert.
C19_Witness ==
    /\ lastEvent.op = "tick_finish" /\ lastEvent.alert.error /\ ~lastEvent.stored
    /\ IsRunning(lastEvent.sessionId) /\ TimersOf(lastEvent.sessionId) # {}
    /\ \E i \in DOMAIN sent :
           /\ sent[i].type = "telemetry_data" /\ sent[i].alert = lastEvent.alert
           /\ sent[i].alert # NoAlert

\* C20: no telemetry_data or global_alert a tick sends tells the client that a
\* storage write failed: the alert it carries never has the `error` field.
C20_NoStorageErrorSurfaced ==
    \A i \in DOMAIN sent :
        sent[i].type \in {"telemetry_data", "global_alert"} => ~sent[i].alert.error

ThrowingTickIsSkipped ==
    LET e == lastEvent'
        s == e.sessionId
    IN  /\ e.op = "tick_throws" =>
               /\ sent' = << >>
               /\ pendingTicks' = pendingTicks
               /\ activeSessions' = activeSessions
               /\ DOMAIN timers' = DOMAIN timers
               /\ \E id \in DOMAIN timers' :
                      /\ timers'[id].sessionId = s
                      /\ timers'[id].nextFire = now + timers'[id].intervalMs
        /\ (e.op = "tick" /\ e.flag) =>
               \A c \in Registered :
                   (conn[c].sessionId = s /\ conn[c].readyState = "OPEN") =>
                       Cardinality({i \in DOMAIN sent' :
                                       /\ sent'[i].type = "telemetry_data"
                                       /\ sent'[i].to = c
                                       /\ sent'[i].telemetry.sessionId = s}) = 1

\* C21: a tick whose body throws broadcasts nothing and leaves the session in
\* activeSessions with its interval armed for the next period; a tick that does
\* not throw, whatever came before it, sends its telemetry_data to the subscribers.
C21_ThrowingTickIsSkipped == [][ThrowingTickIsSkipped]_vars

\* A tick of a running session has thrown, a client is subscribed, and the
\* interval is armed for a later moment.
C21_Witness ==
    /\ lastEvent.op = "tick_throws"
    /\ IsRunning(lastEvent.sessionId)
    /\ Subscribers(lastEvent.sessionId) # {}
    /\ \E id \in TimersOf(lastEvent.sessionId) : timers[id].nextFire > now

\* The steps that are an inbound message or a pong of a connection.
InboundOps ==
    {"start_session", "stop_session", "subscribe_telemetry", "unsubscribe_telemetry",
     "unknown_type", "subscribe_no_session", "malformed", "pong"}

\* C22: every inbound message of a registered connection, whatever its content,
\* and every pong it returns, sets the connection's lastActivity to the current time.
C22_ActivityOnEveryMessage ==
    [][lastEvent'.op \in InboundOps => conn'[lastEvent'.conn].lastActivity = now]_vars

\* Connection c has a telemetry_data of session s, with a speed of 20 to 140 km/h,
\* among the messages of the last step.
ReceivesTelemetry(c, s) ==
    \E i \in DOMAIN sent :
        /\ sent[i].type = "telemetry_data" /\ sent[i].to = c
        /\ sent[i].telemetry.sessionId = s
        /\ sent[i].telemetry.speed >= 2000 /\ sent[i].telemetry.speed <= 14000

\* Connection c is subscribed to the running session s, whose interval fires next
\* within the time the clock covers.
AwaitsTelemetry(c, s) ==
    /\ c \in Registered /\ IsOpen(c) /\ conn[c].sessionId = s
    /\ IsRunning(s)
    /\ \E id \in TimersOf(s) : timers[id].nextFire <= ServerStart + Horizon

\* C23: a connected client that has started session s and is subscribed to it
\* eventually receives a telemetry_data naming s with a speed within [20, 140],
\* when the session's interval fires and a pending alert save settles.
C23_SubscriberGetsTelemetry ==
    \A c \in FineConns, s \in StartIds : AwaitsTelemetry(c, s) ~> ReceivesTelemetry(c, s)

\* The client got its first sample of the session it started: the step before was
\* a tick, and the client's last message was sent before the tick was due.
C23_Witness ==
    /\ ReceivesTelemetry("c1", "sessA1")
    /\ lastEvent.op \in {"tick", "tick_finish"}
    /\ conn["c1"].lastActivity < now

StopRepliesForItsSession ==
    lastEvent'.op = "session_stopped" =>
        \A h \in handlers \ handlers' :
            /\ \A i \in DOMAIN sent' :
                   sent'[i].type = "session_stopped" => sent'[i].sessionId = h.sessionId
            /\ (h.conn \in Registered /\ conn[h.conn].sessionId # h.sessionId)
                   => conn'[h.conn].sessionId = conn[h.conn].sessionId

\* C24: the session_stopped reply of a stop_session names the session the
\* connection was subscribed to when the message was handled, and the handler
\* clears that subscription only: one made while it waited for the storage stays.
C24_StopRepliesForItsSession == [][StopRepliesForItsSession]_vars

SendFailureKeepsPublish ==
    (lastEvent'.op = "tick_finish" \/ (lastEvent'.op = "tick" /\ lastEvent'.flag)) =>
        /\ \A c \in Registered :
               (conn[c].sessionId = lastEvent'.sessionId /\ IsOpen(c)) =>
                   /\ Cardinality({i \in DOMAIN sent' :
                                      /\ sent'[i].type = "telemetry_data"
                                      /\ sent'[i].to = c}) = 1
                   /\ \A i \in DOMAIN sent' :
                          (sent'[i].type = "telemetry_data" /\ sent'[i].to = c)
                              => sent'[i].failed = conn[c].sendThrows
        /\ activeSessions' = activeSessions
        /\ DOMAIN timers' = DOMAIN timers

\* C25: in a publish every open subscriber's socket is handed the telemetry_data
\* once, whether or not the send to a subscriber before it threw, and the publish
\* leaves the session running with its interval.
C25_SendFailureKeepsPublish == [][SendFailureKeepsPublish]_vars

\* A publish in which the send to the first subscriber threw and the subscriber
\* after it got the message; the session is running.
C25_Witness ==
    /\ lastEvent.op \in {"tick", "tick_finish"}
    /\ Len(sent) >= 2
    /\ sent[1].type = "telemetry_data" /\ sent[1].failed
    /\ sent[2].type = "telemetry_data" /\ ~sent[2].failed /\ sent[2].to # sent[1].to
    /\ IsRunning(lastEvent.sessionId)

\* The simulation of session b: its activeSessions entry and its timers with the
\* state they hold.
SimulationOf(as, tm, b) ==
    [ running |-> b \in DOMAIN as,
      entry   |-> IF b \in DOMAIN as THEN <<as[b]>> ELSE << >>,
      timers  |-> {<<id, tm[id]>> : id \in {x \in DOMAIN tm : tm[x].sessionId = b}} ]

\* The sessions a step concerned: the session of a tick, the session a stop_session
\* was for, the subscriptions of the connections a close, error or sweep removed.
ConcernedNext ==
    IF lastEvent'.op \in {"tick", "tick_finish", "tick_throws", "stop_session"}
        THEN {lastEvent'.sessionId}
    ELSE IF lastEvent'.op = "session_stopped"
        THEN {h.sessionId : h \in handlers \ handlers'}
    ELSE IF lastEvent'.op \in {"close", "error", "sweep"}
        THEN {conn[c].sessionId : c \in Registered \ Range(activeConnections')}
    ELSE SessionIds

OtherSessionsUntouched ==
    \A b \in SessionIds \ ConcernedNext :
        SimulationOf(activeSessions', timers', b) = SimulationOf(activeSessions, timers, b)

\* C26: a tick of a session, a tick that throws, a stop_session for it, and the
\* disconnect or eviction of a connection subscribed to it leave the simulation of
\* every other session (running status, interval, simulation state with its
\* cooldown stamp) as it was.
C26_OtherSessionsUntouched == [][OtherSessionsUntouched]_vars

\* The sweep evicted the last subscriber of sessA1 and stopped it while sessB2 runs.
C26_Witness ==
    /\ lastEvent.op = "sweep" /\ lastEvent.flag /\ lastEvent.sessionId = "sessA1"
    /\ ~IsRunning("sessA1") /\ IsRunning("sessB2")

\* C27: a sample with a speed above 120 km/h that checkForHazards evaluates
\* outside the cooldown gets a speed_warning.
C27_SpeedWarningAbove120 ==
    (probe.done /\ probe.speed > 12000 /\ now - probe.lastAlertTime >= alertCooldown)
        => probe.alert.type = "speed_warning"

StartWithoutIdCreatesSession ==
    \A h \in handlers \ handlers' :
        ( /\ h.kind = "start" /\ h.sessionId = NoSession
          /\ h.conn \in Registered /\ IsOpen(h.conn)
          /\ ~(lastEvent'.op = "session_error" /\ ~lastEvent'.flag) )
        => \E i \in DOMAIN sent' :
              /\ sent'[i].type = "session_started" /\ sent'[i].to = h.conn
              /\ sent'[i].sessionId \notin SessionIds \cup {NoSession}
              /\ sent'[i].sessionId \in DOMAIN activeSessions'
              /\ conn'[h.conn].sessionId = sent'[i].sessionId

\* C28: a start_session without sessionId, when the storage calls are fulfilled,
\* is answered with session_started naming an id the server generated, with the
\* simulation of that id running and the sender subscribed to it.
C28_StartWithoutIdCreatesSession == [][StartWithoutIdCreatesSession]_vars

\* How many session_started messages naming session s the next state's step sent to c.
StartedRepliesNext(c, s) ==
    Cardinality({i \in DOMAIN sent' :
                    /\ sent'[i].type = "session_started"
                    /\ sent'[i].to = c /\ sent'[i].sessionId = s})

\* C29 as stated: handleStartSession for S that completes without a storage error
\* on a registered connection leaves S running and the connection subscribed to
\* S, and has sent it exactly one session_started naming S.
C29_StartCompletes ==
    [][(lastEvent'.op = "session_started" /\ lastEvent'.conn \in Registered) =>
          /\ lastEvent'.sessionId \in DOMAIN activeSessions'
          /\ conn'[lastEvent'.conn].sessionId = lastEvent'.sessionId
          /\ StartedRepliesNext(lastEvent'.conn, lastEvent'.sessionId) = 1]_vars

\* C29, amended: the same with one session_started when the connection's socket
\* is open, and none when the socket has left OPEN and its close event is pending.
C29_StartCompletesOpen ==
    [][(lastEvent'.op = "session_started" /\ lastEvent'.conn \in Registered) =>
          /\ lastEvent'.sessionId \in DOMAIN activeSessions'
          /\ conn'[lastEvent'.conn].sessionId = lastEvent'.sessionId
          /\ StartedRepliesNext(lastEvent'.conn, lastEvent'.sessionId)
                = (IF IsOpen(lastEvent'.conn) THEN 1 ELSE 0)]_vars

\* A start of a session that was already running has completed on a registered,
\* open connection that was not subscribed to it at the request: it is now, and
\* has its one session_started.
C29_Witness ==
    /\ lastEvent.op = "session_started" /\ lastEvent.flag
    /\ lastEvent.conn \in Registered /\ IsOpen(lastEvent.conn)
    /\ conn[lastEvent.conn].sessionId = lastEvent.sessionId
    /\ IsRunning(lastEvent.sessionId)
    /\ Len(sent) = 1 /\ sent[1].type = "session_started"
    /\ Cardinality(Subscribers(lastEvent.sessionId)) = 2

\* A start_session handler ended in its catch block in the step to the next state.
StartFailedNext(h) ==
    /\ h \in handlers \ handlers' /\ h.kind = "start"
    /\ lastEvent'.op = "session_error"

\* What a failed start leaves alone: the simulations, the registry of connections
\* and the subscription of every registered connection.
StartFailureFrame ==
    /\ activeSessions' = activeSessions /\ timers' = timers
    /\ activeConnections' = activeConnections
    /\ \A c \in Registered : conn'[c].sessionId = conn[c].sessionId

\* C30 as stated: when the storage fails inside handleStartSession the sender
\* receives session_error, no simulation is started, and the subscriptions, the
\* connections and the simulations are unchanged.
C30_StartFailure ==
    [][\A h \in handlers : StartFailedNext(h) =>
          /\ Len(sent') = 1 /\ sent'[1].type = "session_error" /\ sent'[1].to = h.conn
          /\ StartFailureFrame]_vars

\* C30, amended: the same, the session_error being sent when the sender's socket
\* is still open and nothing being sent when it has closed in the meantime.
C30_StartFailureOpen ==
    [][\A h \in handlers : StartFailedNext(h) =>
          /\ IF IsOpen(h.conn)
             THEN Len(sent') = 1 /\ sent'[1].type = "session_error" /\ sent'[1].to = h.conn
             ELSE sent' = << >>
          /\ StartFailureFrame]_vars

\* A start_session of a client subscribed to another, running session has failed:
\* the client has its session_error and its subscription, the session still runs
\* and the one asked for does not.
C30_Witness ==
    /\ lastEvent.op = "session_error" /\ lastEvent.sessionId = "sessB2"
    /\ Len(sent) = 1 /\ sent[1].type = "session_error" /\ sent[1].to = lastEvent.conn
    /\ conn[lastEvent.conn].sessionId = "sessA1"
    /\ IsRunning("sessA1") /\ ~IsRunning("sessB2")

\* The steps that handle a message other than start_session and stop_session.
PassiveOps ==
    {"subscribe_telemetry", "unsubscribe_telemetry", "request_session_status",
     "session_status", "session_status_error", "ping", "unknown_type", "malformed",
     "subscribe_no_session"}

\* C31: handling subscribe_telemetry, unsubscribe_telemetry,
\* request_session_status, ping, an unknown type or a malformed payload leaves
\* activeSessions and every timer with its simulation state as they were.
C31_PassiveMessagesKeepSimulations ==
    [][lastEvent'.op \in PassiveOps =>
          activeSessions' = activeSessions /\ timers' = timers]_vars

\* The last subscriber of a running session has unsubscribed, and it still runs.
C31_Witness ==
    /\ lastEvent.op = "unsubscribe_telemetry" /\ lastEvent.sessionId = "sessA1"
    /\ Subscribers("sessA1") = {}
    /\ IsRunning("sessA1") /\ TimersOf("sessA1") # {}

\* C32: a close or error event of a connection that handleClientDisconnect has
\* already removed (after an error, or after the sweep) changes neither
\* activeConnections nor activeSessions nor any timer, also when the session the
\* connection was subscribed to has been started again in between.
C32_DisconnectIdempotent ==
    [][(lastEvent'.op \in {"close", "error"} /\ lastEvent'.conn \notin Registered) =>
          /\ activeConnections' = activeConnections
          /\ activeSessions' = activeSessions
          /\ timers' = timers]_vars

\* The close event of a connection removed before arrives while another client
\* is registered and a simulation runs.
C32_Witness ==
    /\ lastEvent.op = "close" /\ ~lastEvent.flag
    /\ Registered # {} /\ IsRunning("sessA1")
    /\ Subscribers("sessA1") # {}

\* C33: whenever no connection is registered and no message handler is in
\* progress, no simulation is running and no interval is live.
C33_NoSimulationWithoutConnections ==
    (Registered = {} /\ handlers = {}) => (activeSessions = << >> /\ timers = << >>)

\* The moments at which a simulation started as the server starts has ticked.
TickTimes == {ServerStart + n * i : n \in 1..2, i \in Intervals}

\* The last step sent connection c the sample that session s made at time t.
GotSample(c, s, t) ==
    \E i \in DOMAIN sent :
        /\ sent[i].type = "telemetry_data" /\ sent[i].to = c
        /\ sent[i].telemetry.sessionId = s /\ sent[i].telemetry.timestamp = t

\* C34: a connection that stays subscribed to a session is sent the session's
\* samples in the order of their ticks: once it has been sent the sample of a
\* tick, it is never sent the sample of an earlier tick.
C34_SamplesInTickOrder ==
    \A c \in FineConns, s \in StartIds, t1 \in TickTimes, t2 \in TickTimes :
        t1 < t2 => [](GotSample(c, s, t2) => [](~GotSample(c, s, t1)))

\* C35: a connection whose client answers every ping of the sweep with a pong
\* before the next sweep, and sends nothing else, is never removed by a sweep.
C35_HeartbeatKeepsConnection ==
    [][lastEvent'.op = "sweep" =>
          \A c \in DiligentConns : c \in Registered => c \in Range(activeConnections')]_vars

\* The third sweep has evicted the silent client, and the client that answered the
\* ping of the sweep before it is still registered.
C35_Witness ==
    /\ lastEvent.op = "sweep" /\ lastEvent.flag
    /\ now = ServerStart + 3 * sweepPeriod
    /\ "c1" \in Registered /\ conn["c1"].lastActivity = now - sweepPeriod
    /\ "c2" \notin Registered

\* What reaches the server from a client: its connection, its messages, its pongs.
ArrivalOps == {"connection", "ping", "unknown_type", "malformed", "pong"}

ArrivalTimes == {ServerStart + n * sweepPeriod : n \in 0..3}

Arrived(c, t) == now = t /\ lastEvent.conn = c /\ lastEvent.op \in ArrivalOps

\* A sweep has just terminated a connection, and the connection is gone.
SweptOut(c) == lastEvent.op = "sweep" /\ lastEvent.flag /\ c \notin Registered

\* C36: after something arrived from a connection at time t, no sweep removes the
\* connection 60 s or less after t, and once the sweep 90 s after t has run the
\* connection is registered only if something arrived from it after t.
C36_SilentConnectionEviction ==
    \A c \in Conns, t \in ArrivalTimes :
        [](Arrived(c, t) =>
              [](/\ SweptOut(c) => now > t + staleThreshold
                 /\ (lastEvent.op = "sweep" /\ now >= t + 3 * sweepPeriod /\ c \in Registered)
                       => conn[c].lastActivity > t))

\* The same with the payloads that are not JSON left out of what arrives.
C36_ParsedArrivals ==
    \A c \in Conns, t \in ArrivalTimes :
        [](Arrived(c, t) /\ lastEvent.op # "malformed" =>
              [](/\ SweptOut(c) => now > t + staleThreshold
                 /\ (lastEvent.op = "sweep" /\ now >= t + 3 * sweepPeriod /\ c \in Registered)
                       => conn[c].lastActivity > t))

\* C37: the dashboard client never has more than 5 reconnection attempts counted
\* since its last successful open, an open resets the count to 0, and a close
\* with code 1000 schedules no attempt.
C37_AtMostFiveAttempts ==
    /\ probe.reconnectAttempts <= maxReconnectAttempts
    /\ probe.op = "open" => probe.reconnectAttempts = 0
    /\ (probe.op = "close" /\ probe.code = NormalClosure) => probe.timeout = << >>

\* C38: the reconnect timer scheduled for the k-th consecutive attempt (k counted
\* from 0) waits min(1000 * 2^k, 10000) ms.
C38_BackoffDoubles ==
    probe.timeout # << >> =>
        probe.timeout = <<Min(1000 * 2^(probe.reconnectAttempts - 1), 10000)>>

====
